---- MODULE Spec2Model ----
(***************************************************************************)
(* A model of typo_graphics: the Glyph value type with its overstrike      *)
(* addition (src/glyph.py), and the Typograph glyph pool with its tree set *)
(* index and the chunker (src/typograph.py).                               *)
(*                                                                         *)
(* Python strings are sequences of code points, so that str.lower(),       *)
(* ' '.join() and the ordering used by sorted() are computed, not assumed. *)
(* Images are one pixel row high: [mode, size, data], data the row-major   *)
(* pixel values.  An object's identity is its id; objects created by       *)
(* Glyph.__add__ inside the index rebuild carry the id FreshId.            *)
(***************************************************************************)
EXTENDS Integers, Sequences, FiniteSets, TLC

VARIABLES
    glyphs,             \* Typograph.glyphs: insertion-ordered dict, a sequence of glyphs with distinct names
    standalone_glyphs,  \* Typograph.standalone_glyphs: likewise
    glyph_depth,        \* Typograph.glyph_depth
    tree_sets,          \* Typograph.tree_sets: sequence of TreeSet records
    average_values,     \* Typograph.average_values: sequence of fractions <<sum, count>>
    value_extrema,      \* Typograph.value_extrema: <<min, max>> of average_values
    lastCall,           \* the last call on the pool: add_glyph's arguments, remove_glyph's return value
    failed_calls,       \* how many calls in a row have raised
    lhs,                \* Glyph.__add__: self
    rhs,                \* Glyph.__add__: other
    outcome,            \* result of lhs + rhs
    swapped,            \* result of rhs + lhs
    next_id,            \* identity given to the next object the additions create
    assoc,              \* the sums of three glyphs in every order and grouping
    image_data,         \* _chunk: the flat pixel list
    target_width,       \* _chunk: width in glyphs
    sample_x,           \* Typograph.sample_x
    sample_y,           \* Typograph.sample_y
    chunks,             \* what _chunk returned, or <<"pending">> before the call
    target,             \* _find_closest_glyph: the block, values or (value, alpha) pairs
    cutoff,             \* _find_closest_glyph: cutoff, a fraction <<p, q>>
    background_glyph,   \* background_glyph of _find_closest_glyph and _preprocess, or None
    found,              \* what _find_closest_glyph returned, with the locals it went through
    result_glyphs,      \* _instructions: the matched glyphs, row by row
    spacer,             \* _instructions: the spacer glyph
    target_size,        \* _instructions: <<target_width, target_height>>
    trailing_spacer,    \* _instructions: the trailing_spacer flag
    instructions,       \* what _instructions returned
    source_image,       \* _preprocess: the input image
    enhance_contrast,   \* _preprocess: the enhance_contrast flag
    rescale_intensity,  \* _preprocess: rescale_intensity, or None
    preprocessed        \* what _preprocess returned

poolVars == <<glyphs, standalone_glyphs, glyph_depth, tree_sets, average_values, value_extrema,
              lastCall, failed_calls>>
addVars == <<lhs, rhs, outcome, swapped, next_id, assoc>>
chunkVars == <<image_data, target_width, sample_x, sample_y, chunks>>
matchVars == <<target, cutoff, found>>
instrVars == <<result_glyphs, spacer, target_size, trailing_spacer, instructions>>
prepVars == <<source_image, enhance_contrast, rescale_intensity, preprocessed>>
convertVars == <<matchVars, background_glyph, instrVars, prepVars>>
vars == <<poolVars, addVars, chunkVars, convertVars>>

-----------------------------------------------------------------------------
(* Strings *)

\* code points of the characters glyph names are written with
Chr == [sp |-> 32, zero |-> 48, a |-> 97, b |-> 98, c |-> 99, d |-> 100, g |-> 103, p |-> 112,
        s |-> 115, bar |-> 124]

\* str.lower() on one character: A..Z map to a..z
LowerChar(ch) == IF ch >= 65 /\ ch <= 90 THEN ch + 32 ELSE ch

\* str.lower()
Lower(str) == [i \in 1..Len(str) |-> LowerChar(str[i])]

\* Python's str ordering: s < t, lexicographic by code point, a proper prefix first
StrLess(s, t) ==
    \E i \in 1..Len(t) :
        /\ i - 1 <= Len(s)
        /\ \A j \in 1..(i - 1) : s[j] = t[j]
        /\ \/ i = Len(s) + 1
           \/ i <= Len(s) /\ s[i] < t[i]

RECURSIVE JoinRest(_)
JoinRest(strs) ==
    IF strs = <<>> THEN <<>> ELSE <<Chr.sp>> \o Head(strs) \o JoinRest(Tail(strs))

\* ' '.join(strs)
JoinSpace(strs) ==
    IF strs = <<>> THEN <<>> ELSE Head(strs) \o JoinRest(Tail(strs))

-----------------------------------------------------------------------------
(* Images: the PIL operations glyph.py calls *)

\* Image.convert("L"): both modes of the model hold one 8 bit value per pixel
\* ("1" holds 0 or 255), which the conversion keeps
ConvertL(image) == [image EXCEPT !.mode = "L"]

RECURSIVE SumSeq(_)
SumSeq(values) == IF values = <<>> THEN 0 ELSE Head(values) + SumSeq(Tail(values))

\* Image.resize(samples, Image.BOX) of a one-row image whose width is a
\* multiple of samples[1]: every output pixel is the mean of its box, rounded
\* half up
ResizeBox(image, samples) ==
    LET factor == image.size[1] \div samples[1]
        box(k) == SubSeq(image.data, (k - 1) * factor + 1, k * factor)
    IN  [mode |-> image.mode, size |-> samples,
         data |-> [k \in 1..samples[1] |-> (SumSeq(box(k)) + (factor \div 2)) \div factor]]

Min2(x, y) == IF x <= y THEN x ELSE y

\* a faulty variant of ImageChops.darker: the first image wins
DarkerFirstOnly(image1, image2) == image1

\* ImageChops.darker(image1, image2): pixelwise minimum over the common area
Darker(image1, image2) ==
    LET width == Min2(image1.size[1], image2.size[1])
    IN  [mode |-> image1.mode, size |-> <<width, Min2(image1.size[2], image2.size[2])>>,
         data |-> [k \in 1..width |-> Min2(image1.data[k], image2.data[k])]]

-----------------------------------------------------------------------------
(* Glyph *)

FreshId == 0

\* what a components list keeps of a glyph: the glyph without its own components
\* (an atomic glyph's components list is [self])
Core(g) == [id |-> g.id, name |-> g.name, image |-> g.image, samples |-> g.samples,
            fingerprint |-> g.fingerprint]

\* Glyph.__init__: samples given as an int (a one element sequence here) is
\* doubled into a tuple; no components means [self]
NewGlyph(id, name, image, components, samples) ==
    LET smp == IF Len(samples) = 1 THEN <<samples[1], samples[1]>> ELSE samples
        own == [id |-> id, name |-> name, image |-> image, samples |-> smp,
                fingerprint |-> ResizeBox(ConvertL(image), smp)]
    IN  [id |-> id, name |-> name, image |-> image, samples |-> smp,
         fingerprint |-> own.fingerprint,
         components |-> IF components = <<>> THEN <<own>> ELSE components]

\* a faulty variant of Glyph.__eq__: only an object itself is equal to it
GlyphIs(g, h) == g.id = h.id

\* Glyph.__eq__: name, image and samples
GlyphEq(g, h) == g.name = h.name /\ g.image = h.image /\ g.samples = h.samples

\* a faulty variant of the insertion: x goes to the front whatever its name
InsertInFront(sortedSeq, x) == <<x>> \o sortedSeq

\* insert x behind every element whose name is not greater: a stable insertion
RECURSIVE InsertByName(_, _)
InsertByName(sortedSeq, x) ==
    IF sortedSeq = <<>> THEN <<x>>
    ELSE IF StrLess(x.name, Head(sortedSeq).name) THEN <<x>> \o sortedSeq
    ELSE <<Head(sortedSeq)>> \o InsertByName(Tail(sortedSeq), x)

RECURSIVE SortRec(_, _)
SortRec(done, todo) ==
    IF todo = <<>> THEN done ELSE SortRec(InsertByName(done, Head(todo)), Tail(todo))

\* a faulty variant of the sort: the list is left in the order given
UnsortedByName(items) == items

\* sorted(items, key=lambda g: g.name): stable
SortedByName(items) == SortRec(<<>>, items)

Names(items) == [i \in 1..Len(items) |-> items[i].name]

\* a faulty variant of the checks of __add__: the image mode is tested before samples
AddErrorModeFirst(self, other) ==
    IF other.kind # "Glyph" THEN "TypeError"
    ELSE IF self.g.image.mode # other.g.image.mode THEN "ValueError: modes"
    ELSE IF self.g.samples # other.g.samples THEN "ValueError: samples"
    ELSE "none"

\* the checks of Glyph.__add__, in their order; operands are tagged values
\* [kind |-> "Glyph", g |-> glyph] or [kind |-> "int", v |-> number]
AddError(self, other) ==
    IF other.kind # "Glyph" THEN "TypeError"
    ELSE IF self.g.samples # other.g.samples THEN "ValueError: samples"
    ELSE IF self.g.image.mode # other.g.image.mode THEN "ValueError: modes"
    ELSE "none"

\* the glyph Glyph.__add__ builds once the checks passed
AddGlyphs(a, b, id) ==
    LET components == SortedByName(a.components \o b.components)
    IN  NewGlyph(id, JoinSpace(Names(components)), Darker(a.image, b.image),
                 components, a.samples)

\* Glyph.__add__(self, other): [kind |-> "ok", g |-> glyph] or [kind |-> "raised", exc |-> error]
GlyphAdd(self, other, id) ==
    IF AddError(self, other) # "none"
    THEN [kind |-> "raised", exc |-> AddError(self, other)]
    ELSE [kind |-> "ok", g |-> AddGlyphs(self.g, other.g, id)]

-----------------------------------------------------------------------------
(* The glyph objects the model draws its inputs from *)

ImageOf(mode, data) == [mode |-> mode, size |-> <<Len(data), 1>>, data |-> data]

\* the samples of the modelled Typograph, and so of the glyphs its constructor makes
TypographSamples == <<2, 1>>

\* glyph names: names are arbitrary strings and may hold spaces
NameA == <<Chr.a>>
NameBC == <<Chr.b, Chr.sp, Chr.c>>
NameAB == <<Chr.a, Chr.sp, Chr.b>>
NameC == <<Chr.c>>
NameD == <<Chr.d>>

\* objects 1..4 have pairwise different names; 5 shares the name of 1 and has
\* another image mode; 6 shares the name and the mode of 1; 7 was made with
\* samples=1; 8 differs from 1 in samples and in mode
GlyphObject(id) ==
    CASE id = 1 -> NewGlyph(1, NameA, ImageOf("L", <<0, 255, 255, 255>>), <<>>, TypographSamples)
      [] id = 2 -> NewGlyph(2, NameBC, ImageOf("L", <<255, 0, 255, 170>>), <<>>, TypographSamples)
      [] id = 3 -> NewGlyph(3, NameAB, ImageOf("L", <<170, 170, 85, 255>>), <<>>, TypographSamples)
      [] id = 4 -> NewGlyph(4, NameC, ImageOf("L", <<255, 255, 85, 0>>), <<>>, TypographSamples)
      [] id = 5 -> NewGlyph(5, NameA, ImageOf("1", <<255, 0, 0, 255>>), <<>>, TypographSamples)
      [] id = 6 -> NewGlyph(6, NameA, ImageOf("L", <<85, 85, 0, 255>>), <<>>, TypographSamples)
      [] id = 7 -> NewGlyph(7, NameD, ImageOf("L", <<0, 85, 170, 255>>), <<>>, <<1>>)
      [] id = 8 -> NewGlyph(8, NameD, ImageOf("1", <<0, 0, 255, 255>>), <<>>, <<1>>)

PoolObjectIds == 1..5
AddObjectIds == 1..8

-----------------------------------------------------------------------------
(* Glyph.__add__ as a machine: operands are drawn, added both ways round, and
   a sum may become the left operand of the next addition *)

MaxComponents == 3

Pending == [kind |-> "pending"]
AsOperand(g) == [kind |-> "Glyph", g |-> g]
NonGlyph == [kind |-> "int", v |-> 42]

GlyphOperands == {AsOperand(GlyphObject(id)) : id \in AddObjectIds}

InitAdd ==
    /\ lhs \in GlyphOperands
    /\ rhs \in GlyphOperands \cup {NonGlyph}
    /\ outcome = Pending
    /\ swapped = Pending
    /\ next_id = Cardinality(AddObjectIds) + 1
    /\ assoc = Pending

\* lhs + rhs and rhs + lhs; int + Glyph is a TypeError as Glyph has no __radd__
Combine ==
    /\ outcome = Pending
    /\ outcome' = GlyphAdd(lhs, rhs, next_id)
    /\ swapped' = IF rhs.kind = "Glyph" THEN GlyphAdd(rhs, lhs, next_id + 1)
                  ELSE [kind |-> "raised", exc |-> "TypeError"]
    /\ next_id' = next_id + 2
    /\ UNCHANGED <<lhs, rhs, assoc, poolVars, chunkVars, convertVars>>

\* the sum is added to a further operand
Chain ==
    /\ outcome.kind = "ok"
    /\ Len(outcome.g.components) < MaxComponents
    /\ lhs' = AsOperand(outcome.g)
    /\ rhs' \in GlyphOperands \cup {NonGlyph}
    /\ outcome' = Pending
    /\ swapped' = Pending
    /\ assoc' = Pending
    /\ UNCHANGED <<next_id, poolVars, chunkVars, convertVars>>

\* a further operand is added to the sum
ChainRight ==
    /\ outcome.kind = "ok"
    /\ Len(outcome.g.components) < MaxComponents
    /\ lhs' \in GlyphOperands
    /\ rhs' = AsOperand(outcome.g)
    /\ outcome' = Pending
    /\ swapped' = Pending
    /\ assoc' = Pending
    /\ UNCHANGED <<next_id, poolVars, chunkVars, convertVars>>

\* (x + y) + z: the second addition is not reached when the first raises
AddLeft(x, y, z, id) ==
    LET first == GlyphAdd(x, y, id)
    IN  IF first.kind = "ok" THEN GlyphAdd(AsOperand(first.g), z, id + 1) ELSE first

\* x + (y + z)
AddRight(x, y, z, id) ==
    LET first == GlyphAdd(y, z, id)
    IN  IF first.kind = "ok" THEN GlyphAdd(x, AsOperand(first.g), id + 1) ELSE first

\* the orders three operands can be written in
Orders == <<<<1, 2, 3>>, <<1, 3, 2>>, <<2, 1, 3>>, <<2, 3, 1>>, <<3, 1, 2>>, <<3, 2, 1>>>>

\* every way of adding three operands with two additions: each order, grouped
\* to the left and to the right; every addition makes a glyph object of its own
Groupings(ops, id) ==
    [k \in 1..(2 * Len(Orders)) |->
        LET order == Orders[(k + 1) \div 2]
            first_id == id + 2 * (k - 1)
        IN  IF k % 2 = 1
            THEN AddLeft(ops[order[1]], ops[order[2]], ops[order[3]], first_id)
            ELSE AddRight(ops[order[1]], ops[order[2]], ops[order[3]], first_id)]

\* the operands of the last addition and a third operand are added in every
\* order and grouping
Regroup ==
    /\ outcome.kind = "ok"
    /\ assoc = Pending
    /\ Len(outcome.g.components) <= MaxComponents
    /\ \E third \in GlyphOperands :
          assoc' = [kind |-> "done", third |-> third,
                    sums |-> Groupings(<<lhs, rhs, third>>, next_id)]
    /\ next_id' = next_id + 4 * Len(Orders)
    /\ UNCHANGED <<lhs, rhs, outcome, swapped, poolVars, chunkVars, convertVars>>

-----------------------------------------------------------------------------
(* Typograph._chunk *)

MaxTargetWidth == 3
MaxRows == 2
MaxSample == 2

\* one pixel row of one chunk: [image_data[column + row * target_width * sample_x]
\* for column in columns], rows and columns counted from 0
ChunkRow(data, row, x, tw, sx) ==
    [k \in 1..sx |-> data[((sx * x + (k - 1)) + row * tw * sx) + 1]]

\* for row in rows, from row to lastRow
RECURSIVE ChunkRows(_, _, _, _, _, _)
ChunkRows(data, row, lastRow, x, tw, sx) ==
    IF row > lastRow THEN <<>>
    ELSE ChunkRow(data, row, x, tw, sx) \o ChunkRows(data, row + 1, lastRow, x, tw, sx)

\* for x in range(target_width), from x on: the chunks of glyph row y
RECURSIVE ChunkLine(_, _, _, _, _, _)
ChunkLine(data, y, x, tw, sx, sy) ==
    IF x >= tw THEN <<>>
    ELSE <<ChunkRows(data, sy * y, sy * (y + 1) - 1, x, tw, sx)>>
         \o ChunkLine(data, y, x + 1, tw, sx, sy)

\* for y in range(height), from y on
RECURSIVE ChunkLines(_, _, _, _, _, _)
ChunkLines(data, y, height, tw, sx, sy) ==
    IF y >= height THEN <<>>
    ELSE ChunkLine(data, y, 0, tw, sx, sy) \o ChunkLines(data, y + 1, height, tw, sx, sy)

\* a faulty variant of _chunk: sample_x and sample_y change places
ChunkSwappedSamples(data, tw, sx, sy) ==
    ChunkLines(data, 0, Len(data) \div (tw * sy * sx), tw, sy, sx)

\* Typograph._chunk(image_data, target_width)
Chunk(data, tw, sx, sy) ==
    ChunkLines(data, 0, Len(data) \div (tw * sy * sx), tw, sx, sy)

\* pixel lists of a given length: every position its own value, the same
\* backwards, and a coarse pattern with repeated values
PixelLists(n) ==
    { [i \in 1..n |-> (i - 1) % 256],
      [i \in 1..n |-> (n - i) % 256],
      [i \in 1..n |-> ((i * i) % 4) * 85] }

InitChunk ==
    /\ target_width \in 1..MaxTargetWidth
    /\ sample_x \in 1..MaxSample
    /\ sample_y \in 1..MaxSample
    /\ \E rows \in 1..MaxRows :
           image_data \in PixelLists((target_width * sample_x) * (rows * sample_y))
    /\ chunks = <<"pending">>

DoChunk ==
    /\ chunks = <<"pending">>
    /\ chunks' = <<"returned", Chunk(image_data, target_width, sample_x, sample_y)>>
    /\ UNCHANGED <<image_data, target_width, sample_x, sample_y, poolVars, addVars, convertVars>>

-----------------------------------------------------------------------------
(* Python dicts keyed by glyph name: sequences of glyphs, in insertion order *)

NoneValue == [kind |-> "None"]

HasKey(dict, name) == \E i \in 1..Len(dict) : dict[i].name = name

\* dict.get(name): the tagged glyph, or None
DictGet(dict, name) ==
    IF HasKey(dict, name)
    THEN AsOperand(dict[CHOOSE i \in 1..Len(dict) : dict[i].name = name])
    ELSE NoneValue

\* the dict after dict.pop(name, None)
DictPop(dict, name) == SelectSeq(dict, LAMBDA g : g.name # name)

\* the dict after dict.update({g.name: g}): a present key keeps its place
DictUpdate(dict, g) ==
    IF HasKey(dict, g.name)
    THEN [i \in 1..Len(dict) |-> IF dict[i].name = g.name THEN g ELSE dict[i]]
    ELSE Append(dict, g)

-----------------------------------------------------------------------------
(* The index: Typograph._combine_glyphs, _calculate_trees, _average_glyph_values,
   _glyph_value_extrema, _recalculate_glyphs *)

\* itertools.combinations(items, k), in the order it yields them
RECURSIVE Combinations(_, _)
Combinations(items, k) ==
    IF k = 0 THEN << <<>> >>
    ELSE IF Len(items) < k THEN <<>>
    ELSE LET with == Combinations(Tail(items), k - 1)
         IN  [i \in 1..Len(with) |-> <<Head(items)>> \o with[i]]
             \o Combinations(Tail(items), k)

\* functools.reduce(operator.add, combination), acc the sum so far:
\* [kind |-> "ok", g |-> glyph] or the error of the first addition that raises
RECURSIVE ReduceAdd(_, _)
ReduceAdd(acc, rest) ==
    IF rest = <<>> THEN [kind |-> "ok", g |-> acc]
    ELSE LET sum == GlyphAdd(AsOperand(acc), AsOperand(Head(rest)), FreshId)
         IN  IF sum.kind = "raised" THEN sum ELSE ReduceAdd(sum.g, Tail(rest))

\* the loop of _combine_glyphs over the combinations: output is the dict so far
RECURSIVE CombineLoop(_, _)
CombineLoop(output, combinations) ==
    IF combinations = <<>> THEN [kind |-> "ok", dict |-> output]
    ELSE LET new == ReduceAdd(Head(Head(combinations)), Tail(Head(combinations)))
         IN  IF new.kind = "raised" THEN new
             ELSE CombineLoop(DictUpdate(output, new.g), Tail(combinations))

\* Typograph._combine_glyphs(depth) on the pool gl
CombineGlyphs(gl, depth) == CombineLoop(<<>>, Combinations(gl, depth))

\* a fraction num / den, den > 0: the model's float
Frac(num, den) == <<num, den>>
FracLess(p, q) == p[1] * q[2] < q[1] * p[2]

\* the column sums of glyph_data: the numerators of np.mean(glyph_data, axis=0)
ColumnSums(glyph_data) ==
    [k \in 1..Len(glyph_data[1]) |->
        SumSeq([i \in 1..Len(glyph_data) |-> glyph_data[i][k]])]

\* np.mean(glyph_data, axis=0): one fraction per sample
Centroid(glyph_data, sums) ==
    [k \in 1..Len(sums) |-> Frac(sums[k], Len(glyph_data))]

\* the squared distance of one point from the centroid, times n^2:
\* the sum over the samples of (n * x - column sum)^2
RECURSIVE ScaledSquareDistance(_, _, _, _)
ScaledSquareDistance(point, sums, n, k) ==
    IF k > Len(point) THEN 0
    ELSE (n * point[k] - sums[k]) * (n * point[k] - sums[k])
         + ScaledSquareDistance(point, sums, n, k + 1)

\* np.mean(((glyph_data - centroid) ** 2).sum(axis=1)), over the common
\* denominator n^3
MeanSquareFromCentroid(glyph_data, sums) ==
    Frac(SumSeq([i \in 1..Len(glyph_data) |->
                    ScaledSquareDistance(glyph_data[i], sums, Len(glyph_data), 1)]),
         Len(glyph_data) * Len(glyph_data) * Len(glyph_data))

\* the TreeSet tuple over glyph_set; tree is the point list the cKDTree is built over
TreeSetOver(glyph_set, glyph_data, sums, stack_size) ==
    [glyph_set |-> glyph_set, tree |-> glyph_data,
     centroid |-> Centroid(glyph_data, sums),
     mean_square_from_centroid |-> MeanSquareFromCentroid(glyph_data, sums),
     stack_size |-> stack_size]

\* glyph_data of _calculate_trees
GlyphData(glyph_set) == [i \in 1..Len(glyph_set) |-> glyph_set[i].fingerprint.data]

\* the TreeSet of one stack size; cKDTree and the numpy lines raise on an
\* empty glyph_data
NewTreeSet(glyph_set, stack_size) ==
    IF glyph_set = <<>> THEN [kind |-> "raised", exc |-> "ValueError: empty"]
    ELSE [kind |-> "ok",
          tree_set |-> TreeSetOver(glyph_set, GlyphData(glyph_set),
                                   ColumnSums(GlyphData(glyph_set)), stack_size)]

\* glyph_set of one stack size: the combinations, and at stack size 1 the
\* standalone glyphs behind them
GlyphSet(combined, st, stack_size) ==
    IF stack_size = 1 THEN combined \o st ELSE combined

\* the loop of _calculate_trees from stack_size on; sets are those built so far
RECURSIVE TreeLoop(_, _, _, _, _)
TreeLoop(sets, stack_size, gl, st, depth) ==
    IF stack_size > depth THEN [kind |-> "ok", tree_sets |-> sets]
    ELSE LET combined == CombineGlyphs(gl, stack_size)
         IN  IF combined.kind = "raised" THEN combined
             ELSE LET ts == NewTreeSet(GlyphSet(combined.dict, st, stack_size), stack_size)
                  IN  IF ts.kind = "raised" THEN ts
                      ELSE TreeLoop(Append(sets, ts.tree_set), stack_size + 1, gl, st, depth)

\* Typograph._calculate_trees()
CalculateTrees(gl, st, depth) == TreeLoop(<<>>, 1, gl, st, depth)

RECURSIVE Flatten(_)
Flatten(seqs) == IF seqs = <<>> THEN <<>> ELSE Head(seqs) \o Flatten(Tail(seqs))

\* Typograph._average_glyph_values(): sum(values) / len(values) of every glyph
\* of every tree set
AverageGlyphValues(sets) ==
    Flatten([t \in 1..Len(sets) |->
        [i \in 1..Len(sets[t].glyph_set) |->
            Frac(SumSeq(sets[t].glyph_set[i].fingerprint.data),
                 Len(sets[t].glyph_set[i].fingerprint.data))]])

\* min(averages) or max(averages) from position i on, best the extreme so far
RECURSIVE Extreme(_, _, _, _)
Extreme(averages, i, best, wantMax) ==
    IF i > Len(averages) THEN best
    ELSE IF (wantMax /\ FracLess(best, averages[i])) \/ (~wantMax /\ FracLess(averages[i], best))
    THEN Extreme(averages, i + 1, averages[i], wantMax)
    ELSE Extreme(averages, i + 1, best, wantMax)

\* Typograph._glyph_value_extrema(): (min, max)
GlyphValueExtrema(averages) ==
    << Extreme(averages, 2, averages[1], FALSE), Extreme(averages, 2, averages[1], TRUE) >>

\* what _recalculate_glyphs assigns once _calculate_trees returned
IndexOver(sets, averages) ==
    [kind |-> "ok", tree_sets |-> sets, average_values |-> averages,
     value_extrema |-> GlyphValueExtrema(averages)]

\* what _recalculate_glyphs assigns, or the error _calculate_trees raises
\* before anything is assigned
RecalculateFrom(trees) ==
    IF trees.kind = "raised" THEN trees
    ELSE IndexOver(trees.tree_sets, AverageGlyphValues(trees.tree_sets))

\* Typograph._recalculate_glyphs() on the maps gl and st
Recalculate(gl, st, depth) == RecalculateFrom(CalculateTrees(gl, st, depth))

-----------------------------------------------------------------------------
(* The glyph pool: Typograph.__init__, add_glyph, remove_glyph *)

MaxDepth == 2

\* a caller makes at most this many raising calls in a row
MaxFailedCalls == 1

\* the remove_from identifiers remove_glyph knows, lower case
KeyBoth == <<98, 111, 116, 104>>  \* "both"
KeyB == <<98>>  \* "b"
KeyCombinations == <<99, 111, 109, 98, 105, 110, 97, 116, 105, 111, 110, 115>>  \* "combinations"
KeyC == <<99>>  \* "c"
KeyStandalone == <<115, 116, 97, 110, 100, 97, 108, 111, 110, 101>>  \* "standalone"
KeyS == <<115>>  \* "s"

\* remove_from values callers pass: "Both", "C", "Standalone", and "X", which
\* names no map
RemoveFromBoth == <<66, 111, 116, 104>>
RemoveFromC == <<67>>
RemoveFromStandalone == <<83, 116, 97, 110, 100, 97, 108, 111, 110, 101>>
RemoveFromX == <<88>>
RemoveFromInputs == {RemoveFromBoth, RemoveFromC, RemoveFromStandalone, RemoveFromX}

\* a faulty variant of add_glyph: the other map is left alone
PoolsAfterAddNoPop(gl, st, g, use_in_combinations) ==
    IF use_in_combinations
    THEN [glyphs |-> DictUpdate(gl, g), standalone_glyphs |-> st]
    ELSE [glyphs |-> gl, standalone_glyphs |-> DictUpdate(st, g)]

\* a faulty variant of add_glyph: a name already in the target map keeps its old glyph
PoolsAfterAddKeepOld(gl, st, g, use_in_combinations) ==
    IF use_in_combinations
    THEN [glyphs |-> IF HasKey(gl, g.name) THEN gl ELSE Append(gl, g),
          standalone_glyphs |-> DictPop(st, g.name)]
    ELSE [glyphs |-> DictPop(gl, g.name),
          standalone_glyphs |-> IF HasKey(st, g.name) THEN st ELSE Append(st, g)]

\* the two maps after the pops and updates of add_glyph
PoolsAfterAdd(gl, st, g, use_in_combinations) ==
    IF use_in_combinations
    THEN [glyphs |-> DictUpdate(gl, g), standalone_glyphs |-> DictPop(st, g.name)]
    ELSE [glyphs |-> DictPop(gl, g.name), standalone_glyphs |-> DictUpdate(st, g)]

\* remove_glyph's first lines: a Glyph argument stands for its name
RemoveName(arg) == IF arg.kind = "Glyph" THEN arg.g.name ELSE arg.s

FromCombinations(remove_from) ==
    Lower(remove_from) \in {KeyBoth, KeyB, KeyCombinations, KeyC}

\* a faulty variant of remove_glyph's second test: "c" and "combinations" count too
FromStandaloneOrCombinations(remove_from) ==
    Lower(remove_from) \in {KeyBoth, KeyB, KeyStandalone, KeyS, KeyCombinations, KeyC}

FromStandalone(remove_from) ==
    Lower(remove_from) \in {KeyBoth, KeyB, KeyStandalone, KeyS}

\* a faulty variant of remove_glyph's return: from_combination alone
RemoveResultCombinationOnly(gl, st, arg, remove_from) ==
    IF FromCombinations(remove_from) THEN DictGet(gl, RemoveName(arg)) ELSE NoneValue

\* remove_glyph's return value, from_combination or from_standalone (a Glyph
\* is truthy, None is not), for the maps gl and st before the call
RemoveResult(gl, st, arg, remove_from) ==
    LET from_combination ==
            IF FromCombinations(remove_from) THEN DictGet(gl, RemoveName(arg)) ELSE NoneValue
        from_standalone ==
            IF FromStandalone(remove_from) THEN DictGet(st, RemoveName(arg)) ELSE NoneValue
    IN  IF from_combination # NoneValue THEN from_combination ELSE from_standalone

\* the two maps after the pops of remove_glyph
PoolsAfterRemove(gl, st, arg, remove_from) ==
    [glyphs |-> IF FromCombinations(remove_from) THEN DictPop(gl, RemoveName(arg)) ELSE gl,
     standalone_glyphs |-> IF FromStandalone(remove_from) THEN DictPop(st, RemoveName(arg)) ELSE st]

\* glyph_images dicts the constructor is given, as the ids of the glyphs it makes
InitialGlyphIds == { <<1, 4>>, <<4, 3, 1>>, <<1, 2, 3, 4>>, <<2>> }

\* the index attributes after a call whose _recalculate_glyphs ends as re:
\* those it assigns, or the old ones when it raises
IndexAfter(re, old) ==
    IF re.kind = "ok"
    THEN [tree_sets |-> re.tree_sets, average_values |-> re.average_values,
          value_extrema |-> re.value_extrema]
    ELSE old

CurrentIndex ==
    [tree_sets |-> tree_sets, average_values |-> average_values, value_extrema |-> value_extrema]

\* Typograph.__init__ with glyph_images and glyph_depth, when it returns: the
\* first _recalculate_glyphs raises for a pool smaller than glyph_depth
InitPool ==
    /\ glyph_depth \in 1..MaxDepth
    /\ \E ids \in InitialGlyphIds :
           /\ glyphs = [i \in 1..Len(ids) |-> GlyphObject(ids[i])]
           /\ Recalculate(glyphs, <<>>, glyph_depth).kind = "ok"
           /\ tree_sets = Recalculate(glyphs, <<>>, glyph_depth).tree_sets
           /\ average_values = Recalculate(glyphs, <<>>, glyph_depth).average_values
           /\ value_extrema = Recalculate(glyphs, <<>>, glyph_depth).value_extrema
    /\ standalone_glyphs = <<>>
    /\ lastCall = [op |-> "__init__", raised |-> FALSE]
    /\ failed_calls = 0

\* Typograph.add_glyph(glyph, use_in_combinations)
AddGlyph(g, use_in_combinations) ==
    LET pools == PoolsAfterAdd(glyphs, standalone_glyphs, g, use_in_combinations)
        re == Recalculate(pools.glyphs, pools.standalone_glyphs, glyph_depth)
        index == IndexAfter(re, CurrentIndex)
    IN  /\ glyphs' = pools.glyphs
        /\ standalone_glyphs' = pools.standalone_glyphs
        /\ re.kind = "raised" => failed_calls < MaxFailedCalls
        /\ failed_calls' = IF re.kind = "raised" THEN failed_calls + 1 ELSE 0
        /\ tree_sets' = index.tree_sets
        /\ average_values' = index.average_values
        /\ value_extrema' = index.value_extrema
        /\ lastCall' = [op |-> "add_glyph",
                        raised |-> re.kind = "raised"]
        /\ UNCHANGED <<glyph_depth, addVars, chunkVars, convertVars>>

\* Typograph.remove_glyph(glyph, remove_from); a call that raises returns nothing
RemoveGlyph(arg, remove_from) ==
    LET pools == PoolsAfterRemove(glyphs, standalone_glyphs, arg, remove_from)
        re == Recalculate(pools.glyphs, pools.standalone_glyphs, glyph_depth)
        index == IndexAfter(re, CurrentIndex)
    IN  /\ glyphs' = pools.glyphs
        /\ standalone_glyphs' = pools.standalone_glyphs
        /\ re.kind = "raised" => failed_calls < MaxFailedCalls
        /\ failed_calls' = IF re.kind = "raised" THEN failed_calls + 1 ELSE 0
        /\ tree_sets' = index.tree_sets
        /\ average_values' = index.average_values
        /\ value_extrema' = index.value_extrema
        /\ lastCall' = [op |-> "remove_glyph",
                        raised |-> re.kind = "raised",
                        returned |-> IF re.kind = "raised" THEN <<>>
                                     ELSE <<RemoveResult(glyphs, standalone_glyphs, arg, remove_from)>>]
        /\ UNCHANGED <<glyph_depth, addVars, chunkVars, convertVars>>

PoolGlyphs == {GlyphObject(id) : id \in PoolObjectIds}

\* remove_glyph is given a name, or a glyph: here the glyph that shares its
\* name with another
RemoveArgs ==
    {[kind |-> "str", s |-> g.name] : g \in PoolGlyphs} \cup {AsOperand(GlyphObject(5))}

AddAnyGlyph == \E g \in PoolGlyphs, flag \in BOOLEAN : AddGlyph(g, flag)

RemoveAnyGlyph ==
    \E arg \in RemoveArgs, remove_from \in RemoveFromInputs : RemoveGlyph(arg, remove_from)

-----------------------------------------------------------------------------
(* Typograph._find_closest_glyph *)

\* the alpha of an opaque pixel
Opaque == 255

RECURSIVE Gcd(_, _)
Gcd(x, y) == IF y = 0 THEN x ELSE Gcd(y, x % y)

RECURSIVE GcdAll(_, _)
GcdAll(nums, g) == IF nums = <<>> THEN g ELSE GcdAll(Tail(nums), Gcd(g, Head(nums)))

\* a list of floats: numerators over one denominator, in lowest terms
Vector(nums, den) ==
    LET g == GcdAll(nums, den)
    IN  [nums |-> [k \in 1..Len(nums) |-> nums[k] \div g], den |-> den \div g]

\* a faulty variant of the transparency test: only alpha 0 counts
IsTransparentZero(tgt) == [k \in 1..Len(tgt) |-> tgt[k][2] = 0]

\* a faulty variant of the transparency test: alpha 255 counts as transparent
IsTransparentOrOpaque(tgt) == [k \in 1..Len(tgt) |-> tgt[k][2] <= Opaque]

\* [alpha < 255 for value, alpha in target]
IsTransparent(tgt) == [k \in 1..Len(tgt) |-> tgt[k][2] < Opaque]

\* a faulty variant of the blend: the background is left out
BlendTargetOnly(background, tgt) == Vector([k \in 1..Len(tgt) |-> tgt[k][1]], 1)

\* [(target_value * alpha/255) + (back_value * (255 - alpha)/255) for ...],
\* over as many pixels as zip() pairs
Blend(background, tgt) ==
    LET n == IF Len(background) < Len(tgt) THEN Len(background) ELSE Len(tgt)
    IN  Vector([k \in 1..n |-> tgt[k][1] * tgt[k][2] + background[k] * (Opaque - tgt[k][2])],
               Opaque)

\* [value for value, alpha in target]
StripAlpha(tgt) == Vector([k \in 1..Len(tgt) |-> tgt[k][1]], 1)

\* the square of the Euclidean distance between an integer point and the
\* vector t, times t.den^2
SquareDistance(point, t) ==
    SumSeq([k \in 1..Len(point) |->
               (t.den * point[k] - t.nums[k]) * (t.den * point[k] - t.nums[k])])

\* a distance: the square root of sq, over den
Distance(sq, den) == [sq |-> sq, den |-> den]

\* the least square distance of t from the points of a tree
RECURSIVE LeastSquareDistance(_, _, _)
LeastSquareDistance(tree, t, i) ==
    IF i = Len(tree) THEN SquareDistance(tree[i], t)
    ELSE LET here == SquareDistance(tree[i], t)
             rest == LeastSquareDistance(tree, t, i + 1)
         IN  IF here <= rest THEN here ELSE rest

\* a faulty variant of the query: any point of the tree
AnyIndexes(tree, t) == 1..Len(tree)

\* the indexes tree.query(target) may return: cKDTree names one nearest point,
\* any of them when several are equally near
NearestIndexes(tree, t) ==
    {i \in 1..Len(tree) : SquareDistance(tree[i], t) = LeastSquareDistance(tree, t, 1)}

\* neighbours: for every tree set its position in tree_sets, the distance and
\* the index of the query; indexes[k] is the index the k-th query names
Neighbours(sets, t, indexes) ==
    [k \in 1..Len(sets) |->
        [tree_set |-> k, distance |-> LeastSquareDistance(sets[k].tree, t, 1),
         index |-> indexes[k]]]

\* a faulty variant of min: the last of the least distance
RECURSIVE LastLeast(_, _, _)
LastLeast(neighbours, k, best) ==
    IF k > Len(neighbours) THEN best
    ELSE LastLeast(neighbours, k + 1,
                   IF neighbours[k].distance <= neighbours[best].distance THEN k ELSE best)

\* min(neighbours, key=lambda x: x[1]): the first of the least distance
RECURSIVE FirstLeast(_, _, _)
FirstLeast(neighbours, k, best) ==
    IF k > Len(neighbours) THEN best
    ELSE FirstLeast(neighbours, k + 1,
                    IF neighbours[k].distance < neighbours[best].distance THEN k ELSE best)

\* a / b < c / d for naturals a, c and positive b, d, by Euclid's algorithm:
\* no product is formed
RECURSIVE RatioLess(_, _, _, _)
RatioLess(a, b, c, d) ==
    IF a \div b # c \div d THEN a \div b < c \div d
    ELSE IF c % d = 0 THEN FALSE
    ELSE IF a % b = 0 THEN TRUE
    ELSE RatioLess(d, c % d, b, a % b)

\* _root_mean_square_distance(point, tree_set), squared, times t.den^2 * n^3
\* for the n points of the tree set
RootMeanSquare(t, tree_set) ==
    LET n == Len(tree_set.tree)
        fromCentroid ==
            SumSeq([k \in 1..Len(t.nums) |->
                       (n * t.nums[k] - t.den * tree_set.centroid[k][1])
                       * (n * t.nums[k] - t.den * tree_set.centroid[k][1])])
    IN  n * fromCentroid + t.den * t.den * tree_set.mean_square_from_centroid[1]

\* a faulty variant of the comparison with cutoff: <= in place of <
SubstitutesOrEqual(dsq, bsq, diff, rsq, n, cut) ==
    LET scale == cut[2] * cut[2] * n * n * n
        slack == scale * (dsq + bsq) - cut[1] * cut[1] * diff * diff * rsq
    IN  \/ slack <= 0
        \/ dsq # 0 /\ bsq # 0 /\ ~RatioLess(bsq, slack, slack, 4 * scale * scale * dsq)

\* a faulty variant of the comparison with cutoff: > in place of <
SubstitutesAbove(dsq, bsq, diff, rsq, n, cut) ==
    ~SubstitutesOrEqual(dsq, bsq, diff, rsq, n, cut)

\* a faulty variant of the comparison with cutoff: every candidate passes
SubstitutesAlways(dsq, bsq, diff, rsq, n, cut) == TRUE

\* (distance_diff / (stack_size_diff * rmd)) < cutoff, for the squares dsq and
\* bsq of distance and best_distance, rsq of rmd (scaled as above, n the size
\* of the tree set) and cutoff p / q.  With floats of numpy a division by zero
\* gives inf or nan and the comparison is False.
\* (sqrt(dsq) - sqrt(bsq)) * q * sqrt(n^3) < p * diff * sqrt(rsq), squared twice
Substitutes(dsq, bsq, diff, rsq, n, cut) ==
    LET p == cut[1]
        q == cut[2]
        scale == q * q * n * n * n
        slack == scale * (dsq + bsq) - p * p * diff * diff * rsq
    IN  IF dsq < bsq THEN TRUE
        ELSE IF slack < 0 THEN TRUE
        ELSE IF dsq = 0 \/ bsq = 0 THEN FALSE
        ELSE IF slack = 0 THEN TRUE
        ELSE RatioLess(slack, 4 * scale * scale * dsq, bsq, slack)

\* the loop over neighbours[:max_stack_size-1], from position k on
RECURSIVE ScanLoop(_, _, _, _, _, _, _)
ScanLoop(sets, t, cut, neighbours, k, best, fallback) ==
    IF k > sets[neighbours[best].tree_set].stack_size - 1 \/ k > Len(neighbours) THEN fallback
    ELSE LET tree_set == sets[neighbours[k].tree_set]
             stack_size_diff == sets[neighbours[best].tree_set].stack_size - tree_set.stack_size
         IN  IF Substitutes(neighbours[k].distance, fallback.distance.sq, stack_size_diff,
                            RootMeanSquare(t, tree_set), Len(tree_set.tree), cut)
             THEN [glyph |-> AsOperand(tree_set.glyph_set[neighbours[k].index]),
                   distance |-> Distance(neighbours[k].distance, t.den),
                   substituted |-> k]
             ELSE ScanLoop(sets, t, cut, neighbours, k + 1, best, fallback)

\* _find_closest_glyph from the queries on, for the target t the background
\* branch left
MatchTarget(sets, t, cut, background, background_distance, indexes) ==
    LET neighbours == Neighbours(sets, t, indexes)
        best == FirstLeast(neighbours, 2, 1)
        best_tree_set == sets[neighbours[best].tree_set]
        preempted == /\ background_distance # NoneValue
                     /\ background_distance.sq < neighbours[best].distance
        provisional ==
            IF preempted
            THEN [glyph |-> background, distance |-> background_distance, substituted |-> 0]
            ELSE [glyph |-> AsOperand(best_tree_set.glyph_set[neighbours[best].index]),
                  distance |-> Distance(neighbours[best].distance, t.den),
                  substituted |-> 0]
        returned == ScanLoop(sets, t, cut, neighbours, 1, best, provisional)
    IN  [kind |-> "matched", glyph |-> returned.glyph, distance |-> returned.distance,
         target |-> t, background_distance |-> background_distance,
         neighbours |-> neighbours, best_tree_set |-> neighbours[best].tree_set,
         best_glyph |-> provisional.glyph, best_distance |-> provisional.distance,
         preempted |-> preempted, substituted |-> returned.substituted]

\* Typograph._find_closest_glyph(target, cutoff, background_glyph) on the tree
\* sets; indexes are the indexes the tree queries name
FindClosestGlyph(sets, tgt, cut, background, indexes) ==
    IF background = NoneValue
    THEN MatchTarget(sets, Vector(tgt, 1), cut, background, NoneValue, indexes)
    ELSE IF \A k \in 1..Len(tgt) : IsTransparent(tgt)[k]
    THEN [kind |-> "transparent", glyph |-> background, distance |-> NoneValue]
    ELSE IF \E k \in 1..Len(tgt) : IsTransparent(tgt)[k]
    THEN LET t == Blend(background.g.fingerprint.data, tgt)
         IN  MatchTarget(sets, t, cut, background,
                         Distance(SquareDistance(background.g.fingerprint.data, t), t.den),
                         indexes)
    ELSE MatchTarget(sets, StripAlpha(tgt), cut, background, NoneValue, indexes)

\* the glyphs of the matcher's Typographs: images as wide as the samples, so
\* that a fingerprint is its image, with values that keep distances small.
\* 11 and 12 are equally far from their sum; 14 is the blank 'sp', lighter than
\* every other glyph; 15 is in no pool
NameSp == <<Chr.s, Chr.p>>
NameBg == <<Chr.b, Chr.g>>
MatchGlyphObject(id) ==
    CASE id = 11 -> NewGlyph(11, NameA, ImageOf("L", <<0, 4>>), <<>>, TypographSamples)
      [] id = 12 -> NewGlyph(12, NameC, ImageOf("L", <<4, 0>>), <<>>, TypographSamples)
      [] id = 13 -> NewGlyph(13, NameD, ImageOf("L", <<2, 3>>), <<>>, TypographSamples)
      [] id = 14 -> NewGlyph(14, NameSp, ImageOf("L", <<4, 4>>), <<>>, TypographSamples)
      [] id = 15 -> NewGlyph(15, NameBg, ImageOf("L", <<1, 1>>), <<>>, TypographSamples)

\* the pools matching is done on: ids of glyphs and of standalone_glyphs
MatchPools ==
    { <<<<11, 12>>, <<>>>>, <<<<11, 12, 13>>, <<>>>>, <<<<11, 14>>, <<>>>>,
      <<<<13, 12>>, <<14>>>> }

\* the blocks: pixel values, and with a background glyph (value, alpha) pairs
TargetValues == {0, 2, 4}
AlphaInputs == {0, 85, Opaque}
CutoffInputs == { <<0, 1>>, <<1, 4>>, <<1, 2>>, <<1, 1>>, <<2, 1>> }
BackgroundInputs == {NoneValue, AsOperand(MatchGlyphObject(14)), AsOperand(MatchGlyphObject(15))}

TargetInputs(background) ==
    IF background = NoneValue
    THEN {<<x, y>> : x \in TargetValues, y \in TargetValues}
    ELSE {<<<<x, ax>>, <<y, ay>>>> :
             x \in TargetValues, y \in TargetValues, ax \in AlphaInputs, ay \in AlphaInputs}

\* a Typograph built over one of the pools, and the arguments of one call
InitMatch ==
    /\ glyph_depth \in 1..MaxDepth
    /\ \E pool \in MatchPools :
           /\ glyphs = [i \in 1..Len(pool[1]) |-> MatchGlyphObject(pool[1][i])]
           /\ standalone_glyphs = [i \in 1..Len(pool[2]) |-> MatchGlyphObject(pool[2][i])]
    /\ Recalculate(glyphs, standalone_glyphs, glyph_depth).kind = "ok"
    /\ tree_sets = Recalculate(glyphs, standalone_glyphs, glyph_depth).tree_sets
    /\ average_values = Recalculate(glyphs, standalone_glyphs, glyph_depth).average_values
    /\ value_extrema = Recalculate(glyphs, standalone_glyphs, glyph_depth).value_extrema
    /\ lastCall = [op |-> "add_glyph", raised |-> FALSE]
    /\ failed_calls = 0
    /\ background_glyph \in BackgroundInputs
    /\ target \in TargetInputs(background_glyph)
    /\ cutoff \in CutoffInputs
    /\ found = Pending

\* the indexes the queries of one call may name
QueryIndexes(sets, t) ==
    LET nearest == [k \in 1..Len(sets) |-> NearestIndexes(sets[k].tree, t)]
    IN  {indexes \in [1..Len(sets) -> UNION {nearest[k] : k \in 1..Len(sets)}] :
            \A k \in 1..Len(sets) : indexes[k] \in nearest[k]}

\* the target the queries are made with
QueryTarget(tgt, background) ==
    IF background = NoneValue THEN Vector(tgt, 1)
    ELSE IF \E k \in 1..Len(tgt) : IsTransparent(tgt)[k]
    THEN Blend(background.g.fingerprint.data, tgt)
    ELSE StripAlpha(tgt)

\* one call of _find_closest_glyph
Match ==
    /\ found = Pending
    /\ \E indexes \in QueryIndexes(tree_sets, QueryTarget(target, background_glyph)) :
           found' = FindClosestGlyph(tree_sets, target, cutoff, background_glyph, indexes)
    /\ UNCHANGED <<target, cutoff, background_glyph, poolVars, addVars, chunkVars,
                   instrVars, prepVars>>

\* a Typograph of three samples with many standalone glyphs: glyphs 1..3 are
\* lighter than the level in two samples each, glyph 4 is black, the standalone
\* glyphs lie around the level
WideSamples == <<3, 1>>
WidePoints ==
    << <<13, 14, 10>>, <<13, 10, 14>>, <<10, 14, 14>>, <<0, 0, 0>>,
       <<12, 12, 10>>, <<13, 10, 10>>, <<10, 13, 10>>, <<10, 10, 13>>, <<7, 10, 10>>,
       <<10, 7, 10>>, <<10, 10, 7>>, <<12, 12, 11>>, <<12, 11, 12>>, <<11, 12, 12>>,
       <<8, 12, 11>>, <<12, 8, 11>> >>
WideGlyphObject(k) ==
    NewGlyph(60 + k, <<Chr.a + (k - 1)>>, ImageOf("L", WidePoints[k]), <<>>, WideSamples)
WideTargets == {<<10, 10, 10>>, <<12, 12, 10>>, <<10, 10, 14>>}

\* the Typograph of three samples and the arguments of one call on it
InitMatchWide ==
    /\ glyph_depth = MaxDepth + 1
    /\ glyphs = [k \in 1..4 |-> WideGlyphObject(k)]
    /\ standalone_glyphs = [k \in 1..(Len(WidePoints) - 4) |-> WideGlyphObject(k + 4)]
    /\ Recalculate(glyphs, standalone_glyphs, glyph_depth).kind = "ok"
    /\ tree_sets = Recalculate(glyphs, standalone_glyphs, glyph_depth).tree_sets
    /\ average_values = Recalculate(glyphs, standalone_glyphs, glyph_depth).average_values
    /\ value_extrema = Recalculate(glyphs, standalone_glyphs, glyph_depth).value_extrema
    /\ lastCall = [op |-> "add_glyph", raised |-> FALSE]
    /\ failed_calls = 0
    /\ background_glyph = NoneValue
    /\ target \in WideTargets
    /\ cutoff \in CutoffInputs
    /\ found = Pending

\* the indexes the queries of the call recorded in found named
FoundIndexes == [k \in 1..Len(found.neighbours) |-> found.neighbours[k].index]

\* the values of a block without their alphas
PlainValues(tgt) == [k \in 1..Len(tgt) |-> tgt[k][1]]

\* a further call of _find_closest_glyph on the same Typograph, with another
\* cutoff and, where a background glyph was given, possibly without it and on
\* the values alone. A tree queried with the target of the first call names
\* the index it named then
Rematch ==
    /\ found # Pending
    /\ found.kind = "matched"
    /\ "again" \notin DOMAIN found
    /\ \E cut \in CutoffInputs, plain \in BOOLEAN :
          LET background == IF plain THEN NoneValue ELSE background_glyph
              tgt == IF plain /\ background_glyph # NoneValue THEN PlainValues(target)
                     ELSE target
          IN  \E indexes \in QueryIndexes(tree_sets, QueryTarget(tgt, background)) :
                 /\ QueryTarget(tgt, background) = found.target => indexes = FoundIndexes
                 /\ found' = found @@
                       [again |-> [cutoff |-> cut, background_glyph |-> background,
                                   target |-> tgt,
                                   found |-> FindClosestGlyph(tree_sets, tgt, cut,
                                                              background, indexes)]]
    /\ UNCHANGED <<target, cutoff, background_glyph, poolVars, addVars, chunkVars,
                   instrVars, prepVars>>

-----------------------------------------------------------------------------
(* Typograph._preprocess *)

\* images with bands: data holds one tuple per pixel, one value per band
Bands(mode) ==
    CASE mode = "L" -> <<"L">>
      [] mode = "LA" -> <<"L", "A">>
      [] mode = "RGB" -> <<"R", "G", "B">>
      [] mode = "RGBA" -> <<"R", "G", "B", "A">>

\* "A" in image.getbands()
HasAlphaBand(image) == \E i \in 1..Len(Bands(image.mode)) : Bands(image.mode)[i] = "A"

\* image_bands.index("A")
AlphaIndex(image) == CHOOSE i \in 1..Len(Bands(image.mode)) : Bands(image.mode)[i] = "A"

\* Image.new("L", size, "white")
NewWhite(size) ==
    [mode |-> "L", size |-> size, data |-> [k \in 1..(size[1] * size[2]) |-> <<Opaque>>]]

\* image.split()[i]: band i as an image of mode "L"
SplitBand(image, i) ==
    [mode |-> "L", size |-> image.size,
     data |-> [k \in 1..Len(image.data) |-> <<image.data[k][i]>>]]

\* a faulty variant of the alpha channel: always the synthesised one
AlphaChannelWhite(image) == NewWhite(image.size)

\* the alpha channel _preprocess keeps when a background glyph is given
AlphaChannel(image) ==
    IF HasAlphaBand(image) THEN SplitBand(image, AlphaIndex(image)) ELSE NewWhite(image.size)

\* the luma transform of Image.convert("L") for a pixel of red, green and blue
Luma(r, g, b) == (r * 19595 + g * 38470 + b * 7471 + 32768) \div 65536

\* image.convert("L"): a new image; "L" is copied, "LA" loses its alpha band,
\* "RGB" and "RGBA" are reduced to their luma
BandsToL(image) ==
    [mode |-> "L", size |-> image.size,
     data |-> [k \in 1..Len(image.data) |->
                 IF image.mode \in {"L", "LA"} THEN <<image.data[k][1]>>
                 ELSE <<Luma(image.data[k][1], image.data[k][2], image.data[k][3])>>]]

\* greyscale_image.putalpha(alpha_channel) on an image of mode "L"
PutAlpha(image, alpha) ==
    [mode |-> "LA", size |-> image.size,
     data |-> [k \in 1..Len(image.data) |-> <<image.data[k][1], alpha.data[k][1]>>]]

\* the truth value Python gives rescale_intensity: None, False and 0 are false
Truthy(value) ==
    /\ value # NoneValue
    /\ value.kind # "False"
    /\ value.v # 0

\* the values equalize_adapthist and rescale_intensity may leave in a pixel
\* after astype("uint8")
ArrayValues == {0, 1, 128, Opaque}

\* the images the numpy branch may give: Image.fromarray of an array of the
\* shape of the greyscale image. With neither library call made the array is
\* that of the greyscale image; what the calls compute is left open
ProcessedImages(greyscale_image, size, enhance, rescale) ==
    IF ~((size[1] > 1 /\ size[2] > 1 /\ enhance) \/ rescale # NoneValue)
    THEN {greyscale_image}
    ELSE {[mode |-> "L", size |-> greyscale_image.size, data |-> data] :
             data \in [1..Len(greyscale_image.data) -> {<<v>> : v \in ArrayValues}]}

\* the images _preprocess may return
PreprocessResults(image, size, enhance, rescale, background) ==
    LET greyscale_image == BandsToL(image)
        processed == IF enhance \/ Truthy(rescale)
                     THEN ProcessedImages(greyscale_image, size, enhance, rescale)
                     ELSE {greyscale_image}
    IN  IF background # NoneValue
        THEN {PutAlpha(out, AlphaChannel(image)) : out \in processed}
        ELSE processed

\* input images of two pixels
PixelValues == {0, 100, Opaque}
ColourValues == {<<Opaque, 0, 0>>, <<0, 0, Opaque>>, <<10, 200, 30>>}
ImageAlphaValues == {0, 128, Opaque}
PixelsOf(mode) ==
    CASE mode = "L" -> {<<v>> : v \in PixelValues}
      [] mode = "LA" -> {<<v, a>> : v \in {0, 100}, a \in ImageAlphaValues}
      [] mode = "RGB" -> ColourValues
      [] mode = "RGBA" -> {c \o <<a>> : c \in {<<Opaque, 0, 0>>, <<10, 200, 30>>},
                                          a \in {0, Opaque}}
ImageInputs ==
    UNION {{[mode |-> mode, size |-> <<2, 1>>, data |-> <<p, q>>] :
               p \in PixelsOf(mode), q \in PixelsOf(mode)} :
           mode \in {"L", "LA", "RGB", "RGBA"}}

RescaleInputs == {NoneValue, [kind |-> "False", v |-> 0], [kind |-> "float", v |-> 0],
                  [kind |-> "float", v |-> 2]}
TargetSizeInputs == {<<1, 3>>, <<2, 2>>}

InitPreprocess ==
    /\ source_image \in ImageInputs
    /\ target_size \in TargetSizeInputs
    /\ enhance_contrast \in BOOLEAN
    /\ rescale_intensity \in RescaleInputs
    /\ background_glyph \in {NoneValue, AsOperand(MatchGlyphObject(14))}
    /\ preprocessed = Pending

\* one call of _preprocess
Preprocess ==
    /\ preprocessed = Pending
    /\ preprocessed' \in PreprocessResults(source_image, target_size, enhance_contrast,
                                           rescale_intensity, background_glyph)
    /\ UNCHANGED <<source_image, enhance_contrast, rescale_intensity, background_glyph,
                   matchVars, instrVars, poolVars, addVars, chunkVars>>

-----------------------------------------------------------------------------
(* Typograph._instructions *)

\* str(n) for n >= 0
RECURSIVE Str(_)
Str(n) == IF n < 10 THEN <<Chr.zero + n>> ELSE Str(n \div 10) \o <<Chr.zero + (n % 10)>>

\* '{number:0N}'.format(number=...): zeros in front up to the width N
RECURSIVE ZeroFill(_, _)
ZeroFill(digits, width) ==
    IF Len(digits) >= width THEN digits ELSE ZeroFill(<<Chr.zero>> \o digits, width)

\* a faulty variant of the row letters: every string is "a"
IterAllStringsSame(n) == <<Chr.a>>

\* the n-th string _iter_all_strings yields, n = 1, 2, ...: a..z, aa, ab, ...
RECURSIVE IterAllStrings(_)
IterAllStrings(n) ==
    IF n <= 26 THEN <<Chr.a + (n - 1)>>
    ELSE IterAllStrings((n - 1) \div 26) \o <<Chr.a + ((n - 1) % 26)>>

Max2(x, y) == IF x >= y THEN x ELSE y

\* list.index(x) by ==, counted from 1; 0 when x is not in the list
ListIndex(list, x) ==
    IF \E i \in 1..Len(list) : GlyphEq(list[i], x)
    THEN CHOOSE i \in 1..Len(list) :
            GlyphEq(list[i], x) /\ \A j \in 1..(i - 1) : ~GlyphEq(list[j], x)
    ELSE 0

\* list.remove(v) on a list of numbers that holds v
RECURSIVE ListRemove(_, _)
ListRemove(list, v) ==
    IF Head(list) = v THEN Tail(list) ELSE <<Head(list)>> \o ListRemove(Tail(list), v)

InList(list, v) == \E i \in 1..Len(list) : list[i] = v

\* the first loop over the components of a character: an atom that is in
\* last_column keeps its position; indexes.remove raises ValueError when the
\* position is taken already
RECURSIVE MatchUp(_, _, _)
MatchUp(components, last_column, st) ==
    IF components = <<>> \/ st.kind = "raised" THEN st
    ELSE LET glyph_atom == Head(components)
             index == ListIndex(last_column, glyph_atom)
         IN  IF index # 0
             THEN IF InList(st.indexes, index)
                  THEN MatchUp(Tail(components), last_column,
                               [st EXCEPT !.column[index] = glyph_atom,
                                          !.indexes = ListRemove(st.indexes, index)])
                  ELSE [st EXCEPT !.kind = "raised"]
             ELSE MatchUp(Tail(components), last_column,
                          [st EXCEPT !.deferred = Append(st.deferred, glyph_atom)])

\* the second loop: zip(deferred, indexes) fills the free positions in order
FillDeferred(column, deferred, indexes) ==
    [i \in 1..Len(column) |->
        IF \E k \in 1..Min2(Len(deferred), Len(indexes)) : indexes[k] = i
        THEN deferred[CHOOSE k \in 1..Min2(Len(deferred), Len(indexes)) : indexes[k] = i]
        ELSE column[i]]

\* the column of one character, given the column before it
Column(components, last_column, sp) ==
    LET elements == Max2(Len(last_column), Len(components))
        matched == MatchUp(components, last_column,
                           [kind |-> "ok", column |-> [i \in 1..elements |-> sp],
                            indexes |-> [i \in 1..elements |-> i], deferred |-> <<>>])
    IN  IF matched.kind = "raised" THEN matched
        ELSE [kind |-> "ok",
              column |-> FillDeferred(matched.column, matched.deferred, matched.indexes)]

\* the columns of a line of characters
RECURSIVE LineColumns(_, _, _, _)
LineColumns(line, last_column, line_columns, sp) ==
    IF line = <<>> THEN [kind |-> "ok", line_columns |-> line_columns]
    ELSE LET col == Column(Head(line).components, last_column, sp)
         IN  IF col.kind = "raised" THEN col
             ELSE LineColumns(Tail(line), col.column, Append(line_columns, col.column), sp)

RECURSIVE MaxLen(_)
MaxLen(lists) == IF lists = <<>> THEN 0 ELSE Max2(Len(Head(lists)), MaxLen(Tail(lists)))

RECURSIVE MinLen(_)
MinLen(lists) ==
    IF Len(lists) = 1 THEN Len(Head(lists)) ELSE Min2(Len(Head(lists)), MinLen(Tail(lists)))

\* a faulty variant of the transposition: zip, which stops at the shortest column
ZipShortest(line_columns, sp) ==
    [r \in 1..MinLen(line_columns) |->
        [c \in 1..Len(line_columns) |-> line_columns[c][r]]]

\* list(itertools.zip_longest(*line_columns, fillvalue=spacer))
ZipLongest(line_columns, sp) ==
    [r \in 1..MaxLen(line_columns) |->
        [c \in 1..Len(line_columns) |->
            IF r <= Len(line_columns[c]) THEN line_columns[c][r] ELSE sp]]

\* itertools.groupby(row, key=name): runs of neighbours of one name
RECURSIVE GroupBy(_, _)
GroupBy(row, groups) ==
    IF row = <<>> THEN groups
    ELSE LET n == Len(groups)
         IN  IF n > 0 /\ groups[n].key = Head(row).name
             THEN GroupBy(Tail(row), [groups EXCEPT ![n].group = Append(groups[n].group, Head(row))])
             ELSE GroupBy(Tail(row), Append(groups, [key |-> Head(row).name, group |-> <<Head(row)>>]))

\* the last group is dropped when trailing spacers are not wanted and its
\* first glyph equals the spacer
WithoutTrailing(glyph_groups, sp, trailing) ==
    IF ~trailing /\ GlyphEq(glyph_groups[Len(glyph_groups)].group[1], sp)
    THEN SubSeq(glyph_groups, 1, Len(glyph_groups) - 1)
    ELSE glyph_groups

\* a faulty variant of the label: the rows are lettered through from line to line
RowLabelContinued(line_number, row_number, row_count, height) ==
    ZeroFill(Str(line_number), Len(Str(height)))
        \o IterAllStrings(line_number * row_count + row_number + 1)

\* the label of a row: the line number filled with zeros to the length of
\* target_height, and the row letter, a space when the line has one row.
\* line_number and row_number count from 0
RowLabel(line_number, row_number, row_count, height) ==
    ZeroFill(Str(line_number), Len(Str(height)))
        \o (IF row_count > 1 THEN IterAllStrings(row_number + 1) ELSE <<Chr.sp>>)

\* one instruction string
OutLine(row, line_number, row_number, row_count, height, sp, trailing) ==
    LET glyph_groups == WithoutTrailing(GroupBy(row, <<>>), sp, trailing)
        groups == [k \in 1..Len(glyph_groups) |->
                      Str(Len(glyph_groups[k].group)) \o glyph_groups[k].key]
    IN  RowLabel(line_number, row_number, row_count, height)
            \o <<Chr.bar, Chr.sp>> \o JoinSpace(groups)

\* result_glyphs[i * target_width: (i + 1) * target_width]: a slice stops at
\* the end of the list
Slice(list, from, to) == SubSeq(list, Min2(from, Len(list)) + 1, Min2(to, Len(list)))

\* the instruction strings of line_number and of the lines after it
RECURSIVE LinesFrom(_, _, _, _, _, _)
LinesFrom(line_number, glyph_list, sp, width, height, trailing) ==
    IF line_number >= height THEN [kind |-> "ok", lines |-> <<>>]
    ELSE LET line == Slice(glyph_list, line_number * width, (line_number + 1) * width)
             cols == LineColumns(line, <<>>, <<>>, sp)
         IN  IF cols.kind = "raised" THEN [kind |-> "raised", exc |-> "ValueError"]
             ELSE LET rows == ZipLongest(cols.line_columns, sp)
                      here == [r \in 1..Len(rows) |->
                                  OutLine(rows[r], line_number, r - 1, Len(rows), height,
                                          sp, trailing)]
                      rest == LinesFrom(line_number + 1, glyph_list, sp, width, height,
                                        trailing)
                  IN  IF rest.kind = "raised" THEN rest
                      ELSE [kind |-> "ok", lines |-> here \o rest.lines]

\* Typograph._instructions: [kind |-> "ok", lines |-> strings] or a raised ValueError
Instructions(glyph_list, sp, width, height, trailing) ==
    LinesFrom(0, glyph_list, Core(sp), width, height, trailing)

\* the glyphs a conversion can give: atoms and their sums; 16 is a spacer made
\* for the call, equal to glyph 14; 17 is a spacer made for the call with the
\* name of glyph 14 and an image of its own
InstructionAtom(id) ==
    IF id = 16 THEN NewGlyph(16, NameSp, ImageOf("L", <<4, 4>>), <<>>, TypographSamples)
    ELSE IF id = 17 THEN NewGlyph(17, NameSp, ImageOf("L", <<3, 3>>), <<>>, TypographSamples)
    ELSE MatchGlyphObject(id)
SumOf(ids) ==
    IF Len(ids) = 1 THEN InstructionAtom(ids[1])
    ELSE IF Len(ids) = 2
    THEN AddGlyphs(InstructionAtom(ids[1]), InstructionAtom(ids[2]), 20 + ids[1] + ids[2])
    ELSE AddGlyphs(AddGlyphs(InstructionAtom(ids[1]), InstructionAtom(ids[2]), FreshId),
                   InstructionAtom(ids[3]), 40 + ids[1] + ids[2] + ids[3])
ResultGlyphs ==
    {SumOf(ids) : ids \in {<<11>>, <<12>>, <<13>>, <<14>>, <<11, 12>>, <<12, 13>>,
                           <<11, 14>>, <<11, 12, 13>>}}
FewResultGlyphs == {SumOf(ids) : ids \in {<<11>>, <<14>>, <<11, 12>>, <<12, 13>>}}
TallResultGlyphs == {SumOf(ids) : ids \in {<<11>>, <<11, 12>>}}
TallHeight == 10
InstructionSizes == {<<3, 1>>, <<2, 2>>, <<1, TallHeight>>}
SpacerInputs == {InstructionAtom(16), InstructionAtom(13), InstructionAtom(17)}

\* a glyph of the same content made of other objects: object number base + j
\* for component j
CopyOf(g, base) ==
    [g EXCEPT !.id = base,
              !.components = [j \in 1..Len(g.components) |->
                                 [g.components[j] EXCEPT !.id = base + j]]]
CopiesOf(glyph_list) == [i \in 1..Len(glyph_list) |-> CopyOf(glyph_list[i], 100 * i)]

MaxRuns == 2

InitInstructions ==
    /\ target_size \in InstructionSizes
    /\ result_glyphs \in
          IF target_size[2] = 1 THEN [1..target_size[1] -> ResultGlyphs]
          ELSE IF target_size[2] = 2 THEN [1..(2 * target_size[1]) -> FewResultGlyphs]
          ELSE [1..target_size[2] -> TallResultGlyphs]
    /\ spacer \in SpacerInputs
    /\ trailing_spacer \in BOOLEAN
    /\ instructions = Pending

\* the first call of _instructions on the matched glyphs
Synthesise ==
    /\ instructions = Pending
    /\ instructions' =
          [kind |-> "done",
           runs |-> <<Instructions(result_glyphs, spacer, target_size[1], target_size[2],
                                   trailing_spacer)>>]
    /\ UNCHANGED <<result_glyphs, spacer, target_size, trailing_spacer, matchVars,
                   background_glyph, prepVars, poolVars, addVars, chunkVars>>

\* a further call with the same arguments: the same glyph objects, or glyph
\* objects of the same content
Resynthesise ==
    /\ instructions # Pending
    /\ Len(instructions.runs) < MaxRuns
    /\ \E again \in {result_glyphs, CopiesOf(result_glyphs)} :
       \E sp \in {spacer, CopyOf(spacer, 99)} :
          instructions' =
             [instructions EXCEPT !.runs =
                 Append(@, Instructions(again, sp, target_size[1], target_size[2],
                                        trailing_spacer))]
    /\ UNCHANGED <<result_glyphs, spacer, target_size, trailing_spacer, matchVars,
                   background_glyph, prepVars, poolVars, addVars, chunkVars>>

-----------------------------------------------------------------------------
(* Specifications *)

\* variables a specification does not use stay at an idle value
IdleAdd ==
    /\ lhs = Pending /\ rhs = Pending /\ outcome = Pending /\ swapped = Pending /\ next_id = 0
    /\ assoc = Pending
IdleChunk ==
    /\ image_data = <<>> /\ target_width = 1 /\ sample_x = TypographSamples[1]
    /\ sample_y = TypographSamples[2] /\ chunks = <<"pending">>
IdlePool ==
    /\ glyphs = <<>> /\ standalone_glyphs = <<>> /\ glyph_depth = 1 /\ tree_sets = <<>>
    /\ average_values = <<>> /\ value_extrema = <<>> /\ lastCall = [op |-> "none", raised |-> FALSE]
    /\ failed_calls = 0

IdleMatch == target = <<>> /\ cutoff = <<0, 1>> /\ found = Pending
IdleBackground == background_glyph = NoneValue
IdleInstructions ==
    /\ result_glyphs = <<>> /\ spacer = NoneValue /\ target_size = <<0, 0>>
    /\ trailing_spacer = FALSE /\ instructions = Pending
IdlePreprocess ==
    /\ source_image = NoneValue /\ enhance_contrast = FALSE /\ rescale_intensity = NoneValue
    /\ preprocessed = Pending
IdleConvert == IdleMatch /\ IdleBackground /\ IdleInstructions /\ IdlePreprocess

\* the glyph pool of one Typograph
Init == InitPool /\ IdleAdd /\ IdleChunk /\ IdleConvert
Next == AddAnyGlyph \/ RemoveAnyGlyph
Spec == Init /\ [][Next]_vars

\* Glyph.__add__
InitGlyph == InitAdd /\ IdlePool /\ IdleChunk /\ IdleConvert
NextGlyph == Combine \/ Chain \/ ChainRight \/ Regroup
SpecGlyph == InitGlyph /\ [][NextGlyph]_vars

\* Typograph._find_closest_glyph on a Typograph whose pool has glyphs added
\* as standalone
InitMatcher ==
    (InitMatch \/ InitMatchWide) /\ IdleAdd /\ IdleChunk /\ IdleInstructions /\ IdlePreprocess
NextMatcher == Match \/ Rematch
SpecMatch == InitMatcher /\ [][NextMatcher]_vars

\* Typograph._chunk
IdleInstructionText ==
    /\ result_glyphs = <<>> /\ spacer = NoneValue /\ trailing_spacer = FALSE
    /\ instructions = Pending

InitPreprocessor ==
    InitPreprocess /\ IdlePool /\ IdleAdd /\ IdleChunk /\ IdleMatch /\ IdleInstructionText
NextPreprocessor == Preprocess
SpecPreprocess == InitPreprocessor /\ [][NextPreprocessor]_vars

InitInstructor ==
    InitInstructions /\ IdlePool /\ IdleAdd /\ IdleChunk /\ IdleMatch /\ IdleBackground
        /\ IdlePreprocess
NextInstructor == Synthesise \/ Resynthesise
SpecInstructions == InitInstructor /\ [][NextInstructor]_vars

InitChunker == InitChunk /\ IdlePool /\ IdleAdd /\ IdleConvert
NextChunker == DoChunk
SpecChunk == InitChunker /\ [][NextChunker]_vars

-----------------------------------------------------------------------------
(* Properties of the glyph pool, checked under Spec *)

\* the glyph a map holds under a name, as a set: empty or one glyph
Held(dict, name) == {dict[i] : i \in {i \in 1..Len(dict) : dict[i].name = name}}

\* C1: no glyph name is a key of both glyphs and standalone_glyphs, in every
\* state add_glyph and remove_glyph calls lead to
C1_PoolExclusivity ==
    \A i \in 1..Len(glyphs), j \in 1..Len(standalone_glyphs) :
        glyphs[i].name # standalone_glyphs[j].name

\* a glyph was added while both maps are in use, and the call returned
C1_Witness ==
    /\ lastCall.op = "add_glyph"
    /\ ~lastCall.raised
    /\ HasKey(standalone_glyphs, NameA)
    /\ Len(glyphs) >= 2

\* C2: after add_glyph(g, flag) the name of g is in the map flag selects, bound
\* to the object g itself, and in the other map it is absent, whether the call
\* returned or its rebuild raised
C2_AddLeavesExactlyOne ==
    [][\A g \in PoolGlyphs, use_in_combinations \in BOOLEAN :
          AddGlyph(g, use_in_combinations) =>
              LET selected == IF use_in_combinations THEN glyphs' ELSE standalone_glyphs'
                  other == IF use_in_combinations THEN standalone_glyphs' ELSE glyphs'
              IN  /\ Held(selected, g.name) = {g}
                  /\ Held(other, g.name) = {}
      ]_vars

\* the second glyph named "a" is in the combinations map after an add_glyph
\* call, while the standalone map is in use
C2_Witness ==
    /\ lastCall.op = "add_glyph"
    /\ Held(glyphs, NameA) = {GlyphObject(5)}
    /\ standalone_glyphs # <<>>

Binomial(n, k) == Cardinality({T \in SUBSET (1..n) : Cardinality(T) = k})

\* the glyphs of a tree set that stand for the combination at the pool
\* positions T: those whose components are the pool's glyphs at T
Standing(glyph_set, T) ==
    {p \in 1..Len(glyph_set) :
        /\ Len(glyph_set[p].components) = Cardinality(T)
        /\ {c.id : c \in {glyph_set[p].components[i] : i \in 1..Len(glyph_set[p].components)}}
               = {glyphs[i].id : i \in T}}

\* C4: after construction and after every call that returned, tree_sets has
\* glyph_depth entries, the entry at position i has stack_size i, and the entry
\* of depth k holds each k-element combination of the n glyphs of the
\* combinations map exactly once: C(n, k) composites
C4_EveryCombinationOnce ==
    ~lastCall.raised =>
        /\ Len(tree_sets) = glyph_depth
        /\ \A k \in 1..Len(tree_sets) :
              LET glyph_set == tree_sets[k].glyph_set
                  standalone == IF k = 1 THEN Len(standalone_glyphs) ELSE 0
              IN  /\ tree_sets[k].stack_size = k
                  /\ Len(glyph_set) = Binomial(Len(glyphs), k) + standalone
                  /\ \A T \in SUBSET (1..Len(glyphs)) :
                        Cardinality(T) = k => Cardinality(Standing(glyph_set, T)) = 1

\* C5: every standalone glyph is in the glyph_set of the depth-1 tree set, and
\* no glyph of a deeper tree set has a standalone glyph among its components
C5_StandaloneOnlyAsSingles ==
    /\ Len(tree_sets) >= 1
    /\ \A i \in 1..Len(standalone_glyphs) :
          \E p \in 1..Len(tree_sets[1].glyph_set) :
              tree_sets[1].glyph_set[p] = standalone_glyphs[i]
    /\ \A k \in 2..Len(tree_sets) :
          \A p \in 1..Len(tree_sets[k].glyph_set) :
              \A c \in 1..Len(tree_sets[k].glyph_set[p].components) :
                  \A i \in 1..Len(standalone_glyphs) :
                      Core(standalone_glyphs[i]) # tree_sets[k].glyph_set[p].components[c]

\* C6: whenever add_glyph or remove_glyph has finished, by returning or by
\* raising, tree_sets, average_values and value_extrema are the ones derived
\* from the glyphs and standalone_glyphs of that moment
C6_IndexDerivedFromPools ==
    LET re == Recalculate(glyphs, standalone_glyphs, glyph_depth)
    IN  /\ re.kind = "ok"
        /\ CurrentIndex = IndexAfter(re, CurrentIndex)

-----------------------------------------------------------------------------
(* Properties of Glyph.__add__, checked under SpecGlyph *)

SameSamplesAndMode(a, b) == a.samples = b.samples /\ a.image.mode = b.image.mode

\* C7: for glyphs a and b of equal samples and equal image mode, a + b and
\* b + a both give a glyph and the two are equal by Glyph.__eq__: the same
\* name, image and samples
C7_AddCommutes ==
    (outcome.kind # "pending" /\ rhs.kind = "Glyph") =>
        (SameSamplesAndMode(lhs.g, rhs.g) =>
            /\ outcome.kind = "ok"
            /\ swapped.kind = "ok"
            /\ outcome.g.name = swapped.g.name
            /\ outcome.g.image = swapped.g.image
            /\ outcome.g.samples = swapped.g.samples)

\* a sum of three components whose left operand is not the one that sorts
\* first and whose operands differ in their images
C7_Witness ==
    /\ outcome.kind = "ok"
    /\ swapped.kind = "ok"
    /\ Len(outcome.g.components) = 3
    /\ StrLess(rhs.g.name, lhs.g.name)
    /\ lhs.g.image # rhs.g.image
    /\ outcome.g.id # swapped.g.id

\* the ids of the glyphs among the components of g
ComponentIds(g) == {g.components[i].id : i \in 1..Len(g.components)}

\* how many components of g have the given id
Occurrences(g, id) == Cardinality({i \in 1..Len(g.components) : g.components[i].id = id})

\* C8: a + b is a new glyph: its components are those of a and of b together,
\* as many as the two have, in ascending order of name; its name is their
\* names in that order with single spaces between; its image is at every pixel
\* the darker of a's and b's; its samples are a's and b's; a and b stay as
\* they were
C8_AddResult ==
    /\ [](outcome.kind = "ok" =>
            LET r == outcome.g
                a == lhs.g
                b == rhs.g
                n == Len(r.components)
            IN  /\ n = Len(a.components) + Len(b.components)
                /\ \A id \in ComponentIds(a) \cup ComponentIds(b) \cup ComponentIds(r) :
                      Occurrences(r, id) = Occurrences(a, id) + Occurrences(b, id)
                /\ \A i, j \in 1..n :
                      i < j => ~StrLess(r.components[j].name, r.components[i].name)
                /\ Len(r.name) = (n - 1) + SumSeq([i \in 1..n |-> Len(r.components[i].name)])
                /\ \A i \in 1..n :
                      LET start == (i - 1) + SumSeq([k \in 1..(i - 1) |-> Len(r.components[k].name)])
                      IN  /\ SubSeq(r.name, start + 1, start + Len(r.components[i].name))
                               = r.components[i].name
                          /\ i > 1 => r.name[start] = Chr.sp
                /\ r.image.mode = a.image.mode
                /\ r.image.size = a.image.size
                /\ \A k \in 1..Len(r.image.data) :
                      /\ r.image.data[k] \in {a.image.data[k], b.image.data[k]}
                      /\ r.image.data[k] <= a.image.data[k]
                      /\ r.image.data[k] <= b.image.data[k]
                /\ r.samples = a.samples
                /\ r.samples = b.samples
                /\ r.id \notin {a.id, b.id})
    /\ [][outcome.kind = "pending" /\ outcome'.kind # "pending" => lhs' = lhs /\ rhs' = rhs]_vars

\* a sum of a two component glyph and a glyph whose name sorts between the two
\* component names, each operand darker than the other at some pixel
C8_Witness ==
    /\ outcome.kind = "ok"
    /\ Len(outcome.g.components) = 3
    /\ Len(lhs.g.components) = 2
    /\ outcome.g.components[2] = rhs.g.components[1]
    /\ \E k \in 1..Len(lhs.g.image.data) : lhs.g.image.data[k] < rhs.g.image.data[k]
    /\ \E k \in 1..Len(lhs.g.image.data) : rhs.g.image.data[k] < lhs.g.image.data[k]

\* C9: a + b raises TypeError when b is not a Glyph, ValueError when the
\* samples differ, ValueError when the samples agree and the image modes
\* differ; the checks come in this order, so operands that differ in samples
\* and in mode get the samples error; a raising call gives no glyph
C9_AddErrors ==
    outcome.kind # "pending" =>
        /\ rhs.kind # "Glyph" => outcome = [kind |-> "raised", exc |-> "TypeError"]
        /\ rhs.kind = "Glyph" /\ lhs.g.samples # rhs.g.samples =>
              outcome = [kind |-> "raised", exc |-> "ValueError: samples"]
        /\ rhs.kind = "Glyph" /\ lhs.g.samples = rhs.g.samples
                              /\ lhs.g.image.mode # rhs.g.image.mode =>
              outcome = [kind |-> "raised", exc |-> "ValueError: modes"]
        /\ rhs.kind = "Glyph" /\ SameSamplesAndMode(lhs.g, rhs.g) => outcome.kind = "ok"

\* an addition raised for operands that differ in samples and in mode
C9_Witness ==
    /\ outcome.kind = "raised"
    /\ rhs.kind = "Glyph"
    /\ lhs.g.samples # rhs.g.samples
    /\ lhs.g.image.mode # rhs.g.image.mode

\* the three operands of a regrouping
Regrouped == <<lhs.g, rhs.g, assoc.third.g>>

MutuallyCombinable ==
    \A i, j \in 1..3 : SameSamplesAndMode(Regrouped[i], Regrouped[j])

\* C18: for mutually combinable glyphs a, b and c, (a + b) + c and a + (b + c)
\* both give a glyph and the two are equal by Glyph.__eq__; every order and
\* grouping of the three gives a glyph of the same name, the same sequence of
\* component names and the same image
C18_AddAssociative ==
    (assoc.kind = "done" /\ MutuallyCombinable) =>
        LET left == assoc.sums[1]
            right == assoc.sums[2]
        IN  /\ left.kind = "ok"
            /\ right.kind = "ok"
            /\ GlyphEq(left.g, right.g)
            /\ \A k \in 1..Len(assoc.sums) :
                  /\ assoc.sums[k].kind = "ok"
                  /\ assoc.sums[k].g.name = left.g.name
                  /\ Names(assoc.sums[k].g.components) = Names(left.g.components)
                  /\ assoc.sums[k].g.image = left.g.image

\* three operands of pairwise different names and images, the last written
\* sorting before the first, one of them a sum itself and two of the atoms
\* sharing a name
C18_Witness ==
    /\ assoc.kind = "done"
    /\ MutuallyCombinable
    /\ \A i, j \in 1..3 : i # j => /\ Regrouped[i].name # Regrouped[j].name
                                   /\ Regrouped[i].image # Regrouped[j].image
    /\ StrLess(assoc.third.g.name, lhs.g.name)
    /\ Len(lhs.g.components) = 2
    /\ Len(assoc.sums[1].g.components) = 4
    /\ \E i \in 1..3 : assoc.sums[1].g.components[i].name = assoc.sums[1].g.components[i + 1].name
    /\ assoc.sums[1].g.id # assoc.sums[2].g.id

-----------------------------------------------------------------------------
(* Properties of Typograph._chunk, checked under SpecChunk *)

\* C10: for image_data of target_width * sample_x columns and rows * sample_y
\* rows in row-major order, _chunk returns target_width * rows chunks of
\* sample_x * sample_y values each, and value j of chunk r * target_width + c is
\* image_data[(c*sample_x + j mod sample_x) + (r*sample_y + j div sample_x) * target_width*sample_x]
C10_ChunkLayout ==
    chunks[1] = "returned" =>
        LET out == chunks[2]
            rows == Len(image_data) \div (target_width * sample_x * sample_y)
        IN  /\ Len(out) = target_width * rows
            /\ \A n \in 1..Len(out) : Len(out[n]) = sample_x * sample_y
            /\ \A r \in 0..(rows - 1), c \in 0..(target_width - 1),
                  j \in 0..(sample_x * sample_y - 1) :
                    out[r * target_width + c + 1][j + 1]
                        = image_data[((c * sample_x + (j % sample_x))
                                      + (r * sample_y + (j \div sample_x))
                                            * (target_width * sample_x)) + 1]

\* _chunk returned for a raster of several chunk rows and columns whose
\* sample_x and sample_y differ and whose pixels are all different
C10_Witness ==
    /\ chunks[1] = "returned"
    /\ target_width > 1
    /\ Len(chunks[2]) > target_width
    /\ sample_x # sample_y
    /\ \A i, j \in 1..Len(image_data) : image_data[i] = image_data[j] => i = j

-----------------------------------------------------------------------------
(* Properties of Typograph._find_closest_glyph, checked under SpecMatch *)

\* the positions <<k, i>> of the glyphs of the index
IndexPositions ==
    {pos \in (1..Len(tree_sets)) \X (1..Len(tree_sets[1].glyph_set)) :
        pos[2] <= Len(tree_sets[pos[1]].glyph_set)}

IndexGlyph(pos) == tree_sets[pos[1]].glyph_set[pos[2]]

\* the square of the distance between two lists of integers
PlainSquareDistance(point, values) ==
    SumSeq([k \in 1..Len(point) |-> (point[k] - values[k]) * (point[k] - values[k])])

\* a call without background glyph has returned
MatchedPlain == found.kind = "matched" /\ background_glyph = NoneValue

\* C11 as stated: with cutoff 0 and no background glyph, a target that is the
\* fingerprint of a glyph G of the index gets exactly G, at distance 0
C11_SelfMatchExact ==
    (MatchedPlain /\ cutoff = <<0, 1>>) =>
        \A pos \in IndexPositions :
            IndexGlyph(pos).fingerprint.data = target =>
                /\ found.glyph = AsOperand(IndexGlyph(pos))
                /\ found.distance.sq = 0

\* C11: with cutoff 0 and no background glyph, a target that is the
\* fingerprint of a glyph G of the index gets distance 0 and a glyph of the
\* index with that fingerprint, of the least depth that has one; it gets G
\* itself when no other glyph of the index has G's fingerprint
C11_SelfMatch ==
    (MatchedPlain /\ cutoff = <<0, 1>>) =>
        \A pos \in IndexPositions :
            IndexGlyph(pos).fingerprint.data = target =>
                /\ found.distance.sq = 0
                /\ found.glyph.g.fingerprint.data = target
                /\ \E other \in IndexPositions :
                      /\ found.glyph = AsOperand(IndexGlyph(other))
                      /\ other[1] <= pos[1]
                /\ (\A other \in IndexPositions :
                        IndexGlyph(other).fingerprint.data = target => other = pos)
                      => found.glyph = AsOperand(IndexGlyph(pos))

\* a composite that alone has its fingerprint was matched with itself
C11_Witness ==
    /\ MatchedPlain
    /\ cutoff = <<0, 1>>
    /\ Len(found.glyph.g.components) = 2
    /\ found.glyph.g.fingerprint.data = target
    /\ \A pos \in IndexPositions :
          IndexGlyph(pos).fingerprint.data = target => AsOperand(IndexGlyph(pos)) = found.glyph

\* C12: with cutoff 0 and no background glyph the returned glyph is a glyph of
\* the index whose fingerprint is as near to the target as any glyph of any
\* tree set is, whatever its depth, and the returned distance is that least
\* distance
C12_CutoffZeroIsBest ==
    (MatchedPlain /\ cutoff = <<0, 1>>) =>
        /\ \E pos \in IndexPositions : found.glyph = AsOperand(IndexGlyph(pos))
        /\ found.distance.den = 1
        /\ found.distance.sq = PlainSquareDistance(found.glyph.g.fingerprint.data, target)
        /\ \A pos \in IndexPositions :
              found.distance.sq <= PlainSquareDistance(IndexGlyph(pos).fingerprint.data, target)

\* the best match was a composite that no single glyph matches as well, with
\* a target that is no fingerprint of the index
C12_Witness ==
    /\ MatchedPlain
    /\ cutoff = <<0, 1>>
    /\ Len(found.glyph.g.components) = 2
    /\ found.distance.sq > 0
    /\ \A i \in 1..Len(tree_sets[1].glyph_set) :
          found.distance.sq < PlainSquareDistance(tree_sets[1].glyph_set[i].fingerprint.data, target)

\* the target is the fingerprint of a composite glyph of the index
CompositeTarget ==
    \E pos \in IndexPositions : pos[1] >= 2 /\ IndexGlyph(pos).fingerprint.data = target

SingleSquareDistances ==
    [i \in 1..Len(tree_sets[1].glyph_set) |->
        PlainSquareDistance(tree_sets[1].glyph_set[i].fingerprint.data, target)]

\* the least depth with a glyph whose fingerprint is the target
LeastExactDepth ==
    CHOOSE k \in 1..Len(tree_sets) :
        /\ \E pos \in IndexPositions : pos[1] = k /\ IndexGlyph(pos).fingerprint.data = target
        /\ \A pos \in IndexPositions : IndexGlyph(pos).fingerprint.data = target => pos[1] >= k

AllTransparent == \A k \in 1..Len(target) : target[k][2] < 255

\* C14: with a background glyph and a block whose pixels all have alpha below
\* 255 the call returns the background glyph and None, whatever cutoff and
\* pool, and makes no query; in every other case the distance is not None
C14_FullyTransparent ==
    found.kind # "pending" =>
        /\ (background_glyph # NoneValue /\ AllTransparent) =>
              found = [kind |-> "transparent", glyph |-> background_glyph,
                       distance |-> NoneValue]
        /\ found.distance = NoneValue => (background_glyph # NoneValue /\ AllTransparent)
        /\ found.kind = "matched" => found.distance.sq >= 0

\* a block of alpha 85 throughout got the background glyph, with a cutoff
\* that lets substitutes through
C14_Witness ==
    /\ found.kind = "transparent"
    /\ cutoff = <<2, 1>>
    /\ \A k \in 1..Len(target) : target[k][2] = 85
    /\ Len(tree_sets) = 2

\* C15: when the background glyph pre-empts the best match of the trees, the
\* background glyph is what the call returns, for every cutoff
C15_BackgroundNotReplaced ==
    (found.kind = "matched" /\ found.preempted) => found.glyph = background_glyph

\* the candidates of the scan: the positions of tree_sets below limit
\* that pass the comparison with cutoff against the best distance
Passing(limit) ==
    {k \in 1..Len(tree_sets) :
        /\ k < limit
        /\ Substitutes(found.neighbours[k].distance, found.best_distance.sq,
                       tree_sets[found.best_tree_set].stack_size - tree_sets[k].stack_size,
                       RootMeanSquare(found.target, tree_sets[k]),
                       Len(tree_sets[k].tree), cutoff)}

\* C19: the substitutes considered are the nearest glyphs of the tree sets of
\* a depth strictly below the depth of the best match; the first of them in
\* ascending depth that passes the comparison with cutoff is returned with its
\* own distance, and the best match with its distance when none passes; the
\* returned glyph has no more components than the best match
C19_SimplicityScan ==
    found.kind = "matched" =>
        LET depth == Len(found.best_glyph.g.components)
            passing == Passing(depth)
        IN  /\ Len(found.glyph.g.components) <= depth
            /\ passing = {} =>
                  /\ found.glyph = found.best_glyph
                  /\ found.distance = found.best_distance
            /\ passing # {} =>
                  \E k \in passing :
                      /\ \A j \in passing : k <= j
                      /\ found.glyph = AsOperand(tree_sets[k].glyph_set[found.neighbours[k].index])
                      /\ found.distance.sq = found.neighbours[k].distance

\* some but not all pixels of the block have an alpha below 255
PartlyTransparent ==
    /\ \E k \in 1..Len(target) : target[k][2] < 255
    /\ \E k \in 1..Len(target) : target[k][2] = 255

\* C20: with a background glyph and a block of which some but not all pixels
\* have alpha below 255, the target becomes, pixel by pixel,
\* target*alpha/255 + background*(255-alpha)/255, and the background glyph is
\* the provisional best match exactly when its distance from that target is
\* strictly below the least distance of the trees; on a tie it is a tree glyph
C20_PartlyTransparent ==
    (found.kind = "matched" /\ background_glyph # NoneValue /\ PartlyTransparent) =>
        LET t == found.target
            back == background_glyph.g.fingerprint.data
            backSq == SumSeq([k \in 1..Len(back) |->
                          (t.den * back[k] - t.nums[k]) * (t.den * back[k] - t.nums[k])])
            treeSq(pos) ==
                SumSeq([k \in 1..Len(back) |->
                    (t.den * IndexGlyph(pos).fingerprint.data[k] - t.nums[k])
                    * (t.den * IndexGlyph(pos).fingerprint.data[k] - t.nums[k])])
        IN  /\ Len(t.nums) = Len(target)
            /\ \A k \in 1..Len(target) :
                  255 * t.nums[k]
                      = t.den * (target[k][1] * target[k][2] + back[k] * (255 - target[k][2]))
            /\ found.preempted <=> \A pos \in IndexPositions : backSq < treeSq(pos)
            /\ found.preempted =>
                  /\ found.best_glyph = background_glyph
                  /\ found.best_distance.sq = backSq
            /\ ~found.preempted =>
                  \E pos \in IndexPositions :
                      /\ found.best_glyph = AsOperand(IndexGlyph(pos))
                      /\ found.best_distance.sq = treeSq(pos)
                      /\ \A other \in IndexPositions : treeSq(pos) <= treeSq(other)

\* a tie: a background glyph that is in no pool is as far from the blended
\* target as the nearest tree glyph, which stays the best match
C20_Witness ==
    /\ found.kind = "matched"
    /\ background_glyph = AsOperand(MatchGlyphObject(15))
    /\ PartlyTransparent
    /\ ~found.preempted
    /\ found.background_distance.sq = found.best_distance.sq
    /\ found.best_distance.sq > 0

-----------------------------------------------------------------------------
(* Properties of Typograph._preprocess, checked under SpecPreprocess *)

\* the luma of pixel k of the source image, from its own bands
SourceGrey(k) ==
    LET px == source_image.data[k]
    IN  IF source_image.mode \in {"L", "LA"} THEN px[1]
        ELSE (19595 * px[1] + 38470 * px[2] + 7471 * px[3] + 32768) \div 65536

\* C17: the image _preprocess returns has an alpha channel exactly when a
\* background glyph was given; that channel is the source image's own where
\* it has one and fully opaque otherwise; with enhance_contrast false,
\* rescale_intensity None and no background glyph the result is the one
\* channel greyscale conversion of the source at the source's size
C17_PreprocessAlpha ==
    preprocessed # Pending =>
        /\ (preprocessed.mode = "LA") <=> (background_glyph # NoneValue)
        /\ preprocessed.mode \in {"L", "LA"}
        /\ preprocessed.size = source_image.size
        /\ Len(preprocessed.data) = Len(source_image.data)
        /\ background_glyph # NoneValue =>
              \A k \in 1..Len(preprocessed.data) :
                 preprocessed.data[k][2] =
                    IF source_image.mode = "LA" THEN source_image.data[k][2]
                    ELSE IF source_image.mode = "RGBA" THEN source_image.data[k][4]
                    ELSE 255
        /\ (~enhance_contrast /\ rescale_intensity = NoneValue /\ background_glyph = NoneValue) =>
              /\ preprocessed.mode = "L"
              /\ \A k \in 1..Len(preprocessed.data) : preprocessed.data[k] = <<SourceGrey(k)>>

\* a coloured source with an alpha channel of its own, not opaque throughout,
\* was preprocessed for a background glyph with the numpy branch taken
C17_Witness ==
    /\ preprocessed # Pending
    /\ background_glyph # NoneValue
    /\ source_image.mode = "RGBA"
    /\ source_image.data[1][4] # source_image.data[2][4]
    /\ enhance_contrast
    /\ rescale_intensity # NoneValue
    /\ preprocessed.data[1][1] # SourceGrey(1)
    /\ preprocessed.data[1][2] = source_image.data[1][4]

-----------------------------------------------------------------------------
(* Properties of Typograph._instructions, checked under SpecInstructions *)

-----------------------------------------------------------------------------
(* Properties of repeated calls of _find_closest_glyph, checked under SpecMatch *)

\* a second call was made
Rematched == found.kind = "matched" /\ "again" \in DOMAIN found

\* every pixel of the block has alpha 255
AllOpaque == \A k \in 1..Len(target) : target[k][2] = 255

\* the glyphs of the index at depth 1: the pool
InPool(operand) ==
    \E i \in 1..Len(tree_sets[1].glyph_set) :
        /\ tree_sets[1].glyph_set[i].name = operand.g.name
        /\ tree_sets[1].glyph_set[i].image = operand.g.image

\* C21: for a block whose pixels all have alpha 255 the call with a background
\* glyph returns the glyph and the distance the call without background glyph
\* returns for the values alone, with the same cutoff; a background glyph that
\* is not in the pool is not returned for such a block, not even for a block
\* equal to its fingerprint
C21_OpaqueIgnoresBackground ==
    /\ (found.kind # "pending" /\ background_glyph # NoneValue /\ AllOpaque) =>
          /\ found.kind = "matched"
          /\ ~InPool(background_glyph) => found.glyph # background_glyph
    /\ (Rematched /\ background_glyph # NoneValue /\ AllOpaque
            /\ found.again.background_glyph = NoneValue /\ found.again.cutoff = cutoff) =>
          /\ found.again.target = [k \in 1..Len(target) |-> target[k][1]]
          /\ found.again.found.kind = "matched"
          /\ found.again.found.glyph = found.glyph
          /\ found.again.found.distance = found.distance

\* an opaque block equal to the fingerprint of a background glyph that is not
\* in the pool was matched with and without the background glyph
C21_Witness ==
    /\ Rematched
    /\ background_glyph # NoneValue
    /\ AllOpaque
    /\ ~InPool(background_glyph)
    /\ [k \in 1..Len(target) |-> target[k][1]] = background_glyph.g.fingerprint.data
    /\ found.again.background_glyph = NoneValue
    /\ found.again.cutoff = cutoff
    /\ found.distance.sq > 0

\* two calls without background glyph on one target
TwoCutoffs ==
    /\ Rematched
    /\ background_glyph = NoneValue
    /\ found.again.background_glyph = NoneValue
    /\ found.again.target = target

\* cutoff p1/q1 is not above cutoff p2/q2
CutoffLeq(c1, c2) == c1[1] * c2[2] <= c2[1] * c1[2]

\* the two calls of a state, the one of the smaller cutoff first
Smaller == IF CutoffLeq(cutoff, found.again.cutoff) THEN found ELSE found.again.found
Larger == IF CutoffLeq(cutoff, found.again.cutoff) THEN found.again.found ELSE found

\* C28 as stated: of two calls on one index and target without background
\* glyph the one with the larger cutoff returns a glyph of no more components,
\* at a distance that is not smaller
C28_CutoffMonotone ==
    TwoCutoffs =>
        /\ Len(Larger.glyph.g.components) <= Len(Smaller.glyph.g.components)
        /\ Larger.distance.sq >= Smaller.distance.sq

\* C28: of two calls on one index and target without background glyph the one
\* with the larger cutoff returns a glyph of no more components; its distance
\* is not smaller than that of the best match, which cutoff 0 returns; where
\* the two glyphs have equally many components they are one glyph at one distance
C28_CutoffMonotoneComponents ==
    TwoCutoffs =>
        /\ Len(Larger.glyph.g.components) <= Len(Smaller.glyph.g.components)
        /\ Larger.distance.sq >= found.best_distance.sq
        /\ Smaller.distance.sq >= found.best_distance.sq
        /\ found.again.found.best_distance = found.best_distance
        /\ (\E k \in 1..2 : <<cutoff, found.again.cutoff>>[k][1] = 0) =>
              Smaller.distance = found.best_distance
        /\ Len(Larger.glyph.g.components) = Len(Smaller.glyph.g.components) =>
              /\ Larger.glyph = Smaller.glyph
              /\ Larger.distance = Smaller.distance

\* the larger cutoff gave a glyph of fewer components than the smaller one,
\* which gave fewer than the best match has
C28_Witness ==
    /\ TwoCutoffs
    /\ Len(Larger.glyph.g.components) < Len(Smaller.glyph.g.components)
    /\ Len(Smaller.glyph.g.components) < Len(found.best_glyph.g.components)

\* the least of the distances of the queries
LeastNeighbour(k) ==
    \A j \in 1..Len(found.neighbours) :
        found.neighbours[k].distance <= found.neighbours[j].distance

\* C29: the best match of the trees comes from the tree set of the least
\* depth among those whose query gave the least distance, whatever the cutoff;
\* a target that a glyph of depth 1 matches exactly gets that glyph of depth 1,
\* at distance 0, also when a composite matches it exactly
C29_ShallowestOfTied ==
    found.kind = "matched" =>
        /\ LeastNeighbour(found.best_tree_set)
        /\ \A k \in 1..Len(found.neighbours) :
              LeastNeighbour(k) =>
                 tree_sets[found.best_tree_set].stack_size <= tree_sets[k].stack_size
        /\ found.neighbours[1].distance = 0 =>
              /\ tree_sets[found.best_tree_set].stack_size = 1
              /\ found.glyph.g = tree_sets[1].glyph_set[found.neighbours[1].index]
              /\ Len(found.glyph.g.components) = 1
              /\ found.distance.sq = 0

\* a glyph of depth 1 and a composite both match the target exactly, and the
\* cutoff is above 0
C29_Witness ==
    /\ found.kind = "matched"
    /\ Len(found.neighbours) >= 2
    /\ found.neighbours[1].distance = 0
    /\ found.neighbours[2].distance = 0
    /\ cutoff[1] > 0
    /\ Len(found.glyph.g.components) = 1

-----------------------------------------------------------------------------
(* Properties of the lines of _instructions, checked under SpecInstructions *)

\* the first call has been made and gave its list of strings
Synthesised == instructions # Pending /\ instructions.runs[1].kind = "ok"
OutLines == instructions.runs[1].lines

\* the matched glyphs of glyph row i, counted from 0, their columns and the
\* layer rows made of the columns
GlyphRow(i) == Slice(result_glyphs, i * target_size[1], (i + 1) * target_size[1])
RowColumns(i) == LineColumns(GlyphRow(i), <<>>, <<>>, Core(spacer)).line_columns
LayerRows(i) == ZipLongest(RowColumns(i), Core(spacer))

\* the component count of the most stacked glyph of glyph row i
RECURSIVE MostStacked(_)
MostStacked(line) ==
    IF line = <<>> THEN 0 ELSE Max2(Len(Head(line).components), MostStacked(Tail(line)))

\* an instruction string in parts: the label in front of the bar, and in it
\* the row number and the suffix; the groups behind the bar and the space
BarAt(str) == CHOOSE i \in 1..Len(str) : str[i] = Chr.bar /\ \A j \in 1..(i - 1) : str[j] # Chr.bar
LabelOf(str) == SubSeq(str, 1, BarAt(str) - 1)
NumberOf(str) == SubSeq(str, 1, Len(Str(target_size[2])))
SuffixOf(str) == SubSeq(str, Len(Str(target_size[2])) + 1, BarAt(str) - 1)
BodyOf(str) == SubSeq(str, BarAt(str) + 2, Len(str))

\* the positions in the output of the strings numbered for glyph row i
LinesOfRow(i) ==
    {k \in 1..Len(OutLines) : NumberOf(OutLines[k]) = ZeroFill(Str(i), Len(Str(target_size[2])))}

\* C22: for each glyph row _instructions gives as many lines as the most
\* stacked glyph of the row has components, each layer row spanning all
\* target_width positions before groups are dropped; in all there are as many
\* lines as these maxima sum up to
C22_LinesPerRow ==
    Synthesised =>
        /\ \A i \in 0..(target_size[2] - 1) :
              /\ Cardinality(LinesOfRow(i)) = MostStacked(GlyphRow(i))
              /\ Len(LayerRows(i)) = MostStacked(GlyphRow(i))
              /\ \A r \in 1..Len(LayerRows(i)) : Len(LayerRows(i)[r]) = target_size[1]
        /\ Len(OutLines) =
              SumSeq([k \in 1..target_size[2] |-> MostStacked(GlyphRow(k - 1))])

\* two glyph rows of two glyphs each, the first with a glyph of two components
\* in front of a single one, the second with single glyphs only: three lines
C22_Witness ==
    /\ Synthesised
    /\ target_size = <<2, 2>>
    /\ Len(result_glyphs[1].components) = 2
    /\ Len(result_glyphs[2].components) = 1
    /\ MostStacked(GlyphRow(1)) = 1
    /\ Len(OutLines) = 3

\* the column in front of cell c of a glyph row: empty in front of the first
ColumnBefore(columns, c) == IF c = 1 THEN <<>> ELSE columns[c - 1]

\* C23: the column of each cell has as many slots as the larger of the column
\* before it and the component count of its glyph, the column before the
\* first cell of a glyph row being empty; and a component of the cell's glyph
\* that is in slot k of the column before is in slot k of the cell's column
C23_LayerAlignment ==
    Synthesised =>
        \A i \in 0..(target_size[2] - 1) :
            \A c \in 1..Len(GlyphRow(i)) :
                LET before == ColumnBefore(RowColumns(i), c)
                    column == RowColumns(i)[c]
                    components == GlyphRow(i)[c].components
                IN  /\ Len(column) = Max2(Len(before), Len(components))
                    /\ \A k \in 1..Len(before), j \in 1..Len(components) :
                          before[k] = components[j] => column[k] = components[j]

\* the position in the output of the string for layer r of glyph row i
LineAt(i, r) == SumSeq([k \in 1..i |-> MostStacked(GlyphRow(k - 1))]) + r

\* ' '.split of the groups of an instruction string; no name of the model
\* holds a space
RECURSIVE SplitSpace(_, _, _)
SplitSpace(str, word, words) ==
    IF str = <<>> THEN (IF word = <<>> THEN words ELSE Append(words, word))
    ELSE IF Head(str) = Chr.sp
    THEN SplitSpace(Tail(str), <<>>, IF word = <<>> THEN words ELSE Append(words, word))
    ELSE SplitSpace(Tail(str), Append(word, Head(str)), words)

\* a group in parts: the count in front, in decimal digits, and the name
\* behind it; no name of the model starts with a digit
IsDigit(ch) == ch \in Chr.zero..(Chr.zero + 9)
DigitsOf(word) == Cardinality({n \in 1..Len(word) : \A m \in 1..n : IsDigit(word[m])})
RECURSIVE ParseInt(_)
ParseInt(digits) ==
    IF digits = <<>> THEN 0
    ELSE 10 * ParseInt(SubSeq(digits, 1, Len(digits) - 1)) + (digits[Len(digits)] - Chr.zero)
CountOf(word) == ParseInt(SubSeq(word, 1, DigitsOf(word)))
NameOfGroup(word) == SubSeq(word, DigitsOf(word) + 1, Len(word))

\* the names the groups of a line stand for, from left to right
RECURSIVE Expand(_)
Expand(words) ==
    IF words = <<>> THEN <<>>
    ELSE [n \in 1..CountOf(Head(words)) |-> NameOfGroup(Head(words))] \o Expand(Tail(words))

\* C24: each instruction string is the run-length encoding of its layer row:
\* groups of a count and a name with spaces between them, neighbouring groups
\* of different names, which expand to the names of the row from left to
\* right. With trailing_spacer the counts sum to target_width; without it the
\* final run is left out if and only if it is a run of the spacer, and no
\* other group is left out
C24_RunLengthEncoding ==
    Synthesised =>
        \A i \in 0..(target_size[2] - 1) :
            \A r \in 1..Len(LayerRows(i)) :
                LET row == LayerRows(i)[r]
                    runs == GroupBy(row, <<>>)
                    final == runs[Len(runs)].group
                    words == SplitSpace(BodyOf(OutLines[LineAt(i, r)]), <<>>, <<>>)
                    spacer_run == \A n \in 1..Len(final) : GlyphEq(final[n], spacer)
                    kept == IF ~trailing_spacer /\ spacer_run
                            THEN SubSeq(row, 1, Len(row) - Len(final))
                            ELSE row
                IN  /\ \A n \in 1..Len(words) :
                          CountOf(words[n]) >= 1 /\ NameOfGroup(words[n]) # <<>>
                    /\ \A n \in 1..(Len(words) - 1) :
                          NameOfGroup(words[n]) # NameOfGroup(words[n + 1])
                    /\ Expand(words) = Names(kept)
                    /\ trailing_spacer =>
                          SumSeq([n \in 1..Len(words) |-> CountOf(words[n])]) = target_size[1]

\* the number of decimal digits of a number below 1000
DecimalDigits(n) == IF n < 10 THEN 1 ELSE IF n < 100 THEN 2 ELSE 3

\* the suffix of layer r, counted from 1, of a glyph row of more than one
\* layer, for the first 26 layers: a, b, ..., z
LayerLetter(r) == <<Chr.a + (r - 1)>>

\* C25: every instruction string starts with the number of its glyph row,
\* counted from 0, in decimal digits with zeros in front up to the number of
\* digits of target_height; behind it the strings of a glyph row of more than
\* one layer carry, in layer order, a, b, ..., starting again at a in each
\* glyph row, and the string of a row of one layer carries one space; behind
\* z the suffixes go on with aa, ab, ...
C25_LineLabels ==
    Synthesised =>
        /\ \A i \in 0..(target_size[2] - 1) :
              \A r \in 1..Len(LayerRows(i)) :
                  LET str == OutLines[LineAt(i, r)]
                  IN  /\ Len(NumberOf(str)) = DecimalDigits(target_size[2])
                      /\ \A n \in 1..Len(NumberOf(str)) : IsDigit(NumberOf(str)[n])
                      /\ ParseInt(NumberOf(str)) = i
                      /\ str[Len(NumberOf(str)) + 2] = Chr.bar
                      /\ SuffixOf(str) = IF Len(LayerRows(i)) > 1 THEN LayerLetter(r)
                                         ELSE <<Chr.sp>>
        /\ \A n \in 1..26 : IterAllStrings(n) = LayerLetter(n)
        /\ IterAllStrings(27) = <<Chr.a, Chr.a>>
        /\ IterAllStrings(28) = <<Chr.a, Chr.b>>
        /\ IterAllStrings(52) = <<Chr.a, Chr.a + 25>>
        /\ IterAllStrings(53) = <<Chr.b, Chr.a>>

\* ten glyph rows, the first of one layer and the second of two: the labels
\* are "00 ", "01a" and "01b"
C25_Witness ==
    /\ Synthesised
    /\ target_size[2] = TallHeight
    /\ LabelOf(OutLines[1]) = <<Chr.zero, Chr.zero, Chr.sp>>
    /\ LabelOf(OutLines[2]) = <<Chr.zero, Chr.zero + 1, Chr.a>>
    /\ LabelOf(OutLines[3]) = <<Chr.zero, Chr.zero + 1, Chr.b>>
    /\ Len(result_glyphs[10].components) = 2

\* the names an instruction string stands for, from left to right
NamesOfLine(str) == Expand(SplitSpace(BodyOf(str), <<>>, <<>>))

\* C27: the components of the matched glyphs being pairwise distinct, the
\* column of every cell holds each component of the cell's glyph in exactly
\* one slot and the spacer in every other slot, and at each carriage position
\* the strings of the glyph row name every glyph of the column that is not
\* the spacer, and nothing but the spacer elsewhere: no component is lost and
\* none is typed twice
C27_InkConservation ==
    Synthesised =>
        \A i \in 0..(target_size[2] - 1) :
            \A c \in 1..Len(GlyphRow(i)) :
                LET column == RowColumns(i)[c]
                    components == GlyphRow(i)[c].components
                IN  /\ \A j \in 1..Len(components) :
                          Cardinality({k \in 1..Len(column) : column[k] = components[j]}) = 1
                    /\ \A k \in 1..Len(column) :
                          \/ \E j \in 1..Len(components) : column[k] = components[j]
                          \/ column[k] = Core(spacer)
                    /\ \A r \in 1..Len(LayerRows(i)) :
                          LET glyph == LayerRows(i)[r][c]
                              names == NamesOfLine(OutLines[LineAt(i, r)])
                          IN  IF GlyphEq(glyph, spacer)
                              THEN c <= Len(names) => names[c] = spacer.name
                              ELSE c <= Len(names) /\ names[c] = glyph.name

\* the order of the suffixes of one glyph row: shorter ones first, and those
\* of one length by their letters
SuffixBefore(s, t) == Len(s) < Len(t) \/ (Len(s) = Len(t) /\ StrLess(s, t))

\* C30: the instruction strings come in ascending order of glyph row and,
\* within a glyph row, in ascending order of layer, the first layer first; no
\* two strings of a result have the same label of row number and suffix
C30_LineOrder ==
    Synthesised =>
        /\ \A k, m \in 1..Len(OutLines) :
              k < m =>
                  /\ ParseInt(NumberOf(OutLines[k])) <= ParseInt(NumberOf(OutLines[m]))
                  /\ NumberOf(OutLines[k]) = NumberOf(OutLines[m]) =>
                        SuffixBefore(SuffixOf(OutLines[k]), SuffixOf(OutLines[m]))
                  /\ LabelOf(OutLines[k]) # LabelOf(OutLines[m])
        /\ \A i \in 0..(target_size[2] - 1) :
              \A r \in 1..Len(LayerRows(i)) :
                  LET names == NamesOfLine(OutLines[LineAt(i, r)])
                  IN  /\ ParseInt(NumberOf(OutLines[LineAt(i, r)])) = i
                      /\ Len(names) <= target_size[1]
                      /\ names = SubSeq(Names(LayerRows(i)[r]), 1, Len(names))

\* two glyph rows of two layers each: four strings, whose layers differ
C30_Witness ==
    /\ Synthesised
    /\ target_size = <<2, 2>>
    /\ Len(OutLines) = 4
    /\ LabelOf(OutLines[2]) = <<Chr.zero, Chr.a + 1>>
    /\ LabelOf(OutLines[3]) = <<Chr.zero + 1, Chr.a>>
    /\ NamesOfLine(OutLines[3]) # NamesOfLine(OutLines[4])

====
